---- MODULE Spec2Model ----
(***************************************************************************)
(* Model of the RawWBApiLoader job (15_rawwbapiloader-dev).                *)
(*                                                                         *)
(* Part I  - DatabaseConnectionManager.generate_lpid: several processes    *)
(*           (one database session each) run the T-SQL batch of            *)
(*           core/db/connection.py against one shared store; every         *)
(*           statement of the batch is one atomic step.  The connection is *)
(*           in manual commit mode, so what the batch creates stays in the *)
(*           open transaction until the caller commits or rolls back.      *)
(* Part II - WBService.run for scenario wb24: paginated fetch, validation  *)
(*           and transformation, and the transactional batch insert of     *)
(*           WB24Repository.insert, with the DatabaseLogHandler writing    *)
(*           events over the same connection.                              *)
(* Parts III to V - fetch_data of both clients, process_data, and the      *)
(*           fetch settings, each on its own.                              *)
(* Part VI - main from the command line to the exit status: app_init, the  *)
(*           log sink, the resolution of the scenario by WBApp, the run.   *)
(***************************************************************************)
EXTENDS Integers, Sequences, FiniteSets, TLC

(***************************************************************************)
(* Bounds                                                                  *)
(***************************************************************************)
NumProcs == 2
TimeoutTicks == 1
Limit == 2
MaxPages == 3
MaxClock == 2

Procs == 1..NumProcs
\* a session of the store that is not one of the processes of this program
ExternalHolder == NumProcs + 1
\* NULL: DECLARE @NextLpid INT before the draw assigns it (the sequence starts
\* with 1)
NoValue == 0
\* no open transaction holds an uncommitted CREATE SEQUENCE
NoOwner == 0

(***************************************************************************)
(* Part I : state                                                          *)
(***************************************************************************)
VARIABLES
    seqExists,   \* sys.sequences has a row named LpidSequence
    seqNext,     \* the value the next NEXT VALUE FOR will hand out
    seqOwner,    \* the process whose open transaction created the sequence
    held,        \* sessions that hold the application lock 'LpidLock'
    pc,          \* per process: the statement of the batch it is about to run
    waited,      \* per process: ticks spent blocked inside sp_getapplock
    lockResult,  \* per process: @LockResult
    nextLpid,    \* per process: @NextLpid
    outcome,     \* per process: what generate_lpid gave its caller
    drawLog,     \* history: every draw of the sequence, in draw order
    retLog       \* history: every value returned to a caller, in return order

lpidVars == <<seqExists, seqNext, seqOwner, held, pc, waited, lockResult, nextLpid,
               outcome, drawLog, retLog>>

(***************************************************************************)
(* Part II : state of one run of WBService.run (scenario wb24)             *)
(***************************************************************************)
VARIABLES
    rpc,            \* position of the run: the stage or statement it is at
    runArgs,        \* lpid, is_test_data, collection_start_dttm of the run
    sinkOk,         \* the log table accepts the inserts of DatabaseLogHandler
    reqNo,          \* number of page requests issued by fetch_data
    offset,         \* WB24APIClient.offset
    all_products,   \* fetch_data: records accumulated so far
    served,         \* history: every record the remote has returned, in order
    processed_data, \* the canonical tuples returned by process_data
    collection_end, \* insert: the timestamp read from the store
    params,         \* insert: the parameter rows handed to executemany
    rowIdx,         \* insert: rows executemany has executed
    db,             \* the connection and the store behind it
    emitted,        \* every event handed to the logger, in order
    exc,            \* the exception that ended the run, with its stage
    dbClock,        \* SYSUTCDATETIME() of the store
    nowReadLog,     \* history: every read of the store clock made by insert
    old_timeout     \* with_query_timeout: the timeout the wrapper saved

runVars == <<rpc, runArgs, sinkOk, reqNo, offset, all_products, served,
             processed_data, collection_end, params, rowIdx, db, emitted,
             exc, dbClock, nowReadLog, old_timeout>>

(***************************************************************************)
(* Part III : state of one call of fetch_data (WB17APIClient, cursor       *)
(* pagination, or WB24APIClient, offset pagination) and of its caller      *)
(***************************************************************************)
VARIABLES
    fClient,     \* "wb17" or "wb24": the client whose fetch_data runs
    fpc,         \* position: in the loop, returned, raised, back in run
    fMaxRetries, \* api_settings['max_retries'] of the client
    fInitOffset, \* api_settings['offset'] of the client (wb24)
    fOffset,     \* WB24APIClient.offset
    fCursor,     \* WB17: (updated_at, nm_id) of the next payload
    fAll,        \* all_cards / all_products
    fPages,      \* history: every page a response has carried, in order
    fReqLog,     \* history: every request fetch_data has issued, in order
    fAttempt,    \* times the request in flight has been answered so far
    fExc,        \* the exception fetch_data raised
    fEvents,     \* event codes logged, in order
    fPassed      \* what WBService.run handed on to process_data

fetchVars == <<fClient, fpc, fMaxRetries, fInitOffset, fOffset, fCursor, fAll,
               fPages, fReqLog, fAttempt, fExc, fEvents, fPassed>>

(***************************************************************************)
(* Part IV : state of one call of WBDataTransformer.process_data           *)
(***************************************************************************)
VARIABLES
    tpc,        \* position: in the loop, returned, raised, back in run
    tData,      \* the list of raw records handed to process_data
    tIdx,       \* records the loop has gone through
    tOut,       \* processed_data
    tExc,       \* the exception process_data raised
    tEvents,    \* event codes logged, in order
    tInserted   \* history: every batch WBService.run handed to insert

transVars == <<tpc, tData, tIdx, tOut, tExc, tEvents, tInserted>>

(***************************************************************************)
(* Part V : state of WBService._init_api_client (fetch settings)           *)
(***************************************************************************)
VARIABLES
    spc,        \* position: retrieve, process_data, update, client built
    sScenario,  \* "wb17" or "wb24"
    sTable,     \* cfg.WBApiLoadParams as the settings query finds it
    sArgs,      \* the scenario arguments of the caller
    sDbRow,     \* what WBAPISettingsRepository.retrieve returned
    sSettings,  \* api_settings
    sEvents,    \* event codes logged, in order
    sClient     \* the values the fetch client works with

setVars == <<spc, sScenario, sTable, sArgs, sDbRow, sSettings, sEvents,
             sClient>>

(***************************************************************************)
(* Part VI : state of one execution of main                                *)
(***************************************************************************)
VARIABLES
    mpc,        \* position of main: the call it is about to make
    mArgs,      \* the command line: scenario name and the bot flag
    mRegistry,  \* SCENARIOS: for each registered name, its descriptor is truthy
    mImpl,      \* what scenarios/<name>/service.py holds in this deployment
    mSinkUp,    \* the store accepts the inserts of DatabaseLogHandler
    mSeq,       \* the value the next generate_lpid will be given
    mMinted,    \* history: every value generate_lpid has returned
    mLpid,      \* main: lpid
    mHandler,   \* the DatabaseLogHandler on the root logger, and its lpid
    mAppLpid,   \* WBApp.lpid
    mBound,     \* WBService.__init__: the capabilities bound so far
    mService,   \* what get_service_instance returned to main
    mCalls,     \* history: every call to the store or the remote, in order
    mLogTable,  \* committed rows of the log table
    mDiag,      \* the local diagnostic stream (stdout of emit)
    mEmitted,   \* every event handed to the logger, in order
    mDataTable, \* committed data rows
    mExc,       \* the exception that reached the except clause of main
    mNotify,    \* what the notification step did
    mOutcome,   \* how the execution ended
    mStatus     \* the exit status of the process

mainVars == <<mpc, mArgs, mRegistry, mImpl, mSinkUp, mSeq, mMinted, mLpid,
              mHandler, mAppLpid, mBound, mService, mCalls, mLogTable, mDiag,
              mEmitted, mDataTable, mExc, mNotify, mOutcome, mStatus>>

vars == <<lpidVars, runVars, fetchVars, transVars, setVars, mainVars>>

\* what the steps of generate_lpid leave alone
nonLpidVars == <<runVars, fetchVars, transVars, setVars, mainVars>>

\* what the steps of the wb24 run leave alone
nonRunVars == <<lpidVars, fetchVars, transVars, setVars, mainVars>>

(***************************************************************************)
(* Part I : the statements of the batch                                    *)
(***************************************************************************)

\* IF NOT EXISTS (SELECT 1 FROM sys.sequences WHERE name = 'LpidSequence')
SequenceMissing(exists) == ~exists

\* CREATE SEQUENCE Lpid.LpidSequence START WITH 1 INCREMENT BY 1:
\* the store refuses to create an object that already exists, the existing
\* sequence is left as it is.
CreateSequence(exists, nxt) ==
    IF exists
    THEN [ok |-> FALSE, exists |-> exists, nxt |-> nxt]
    ELSE [ok |-> TRUE, exists |-> TRUE, nxt |-> 1]

\* sp_getapplock @LockMode = 'Exclusive': granted only when no session holds it
LockGrantable_Shared(holders, p) == TRUE

LockGrantable(holders, p) == holders = {}

\* @LockTimeout = @TimeoutMs: the wait inside sp_getapplock is over
LockWaitExpired_Never(w) == FALSE

LockWaitExpired(w) == w >= TimeoutTicks

\* the return codes of sp_getapplock that are not produced by waiting
OtherLockFailures == {-2, -3, -999}

\* SET @ErrorMsg = CASE ... END
ErrorMsg(code) ==
    CASE code = -1 -> <<"Lock timeout expired">>
      [] code = -2 -> <<"Canceled (deadlock)">>
      [] code = -3 -> <<"Canceled (error)">>
      [] OTHER     -> <<"Failed to acquire lock (code: ", code, ")">>

\* IF @LockResult < 0 ... THROW
LockFailed_OnlyTimeout(code) == code = -1

LockFailed(code) == code < 0

\* SELECT @NextLpid = NEXT VALUE FOR Lpid.LpidSequence (INCREMENT BY 1)
NextValueFor(nxt) == [value |-> nxt, nxt |-> nxt + 1]

\* pyodbc.connect(connection_string, timeout=...) leaves the connection in
\* manual commit mode and generate_lpid never commits: a CREATE SEQUENCE of
\* the batch stays in the open transaction of the session. The catalog row
\* of an uncommitted sequence is locked against every other session.
CatalogBlocked(owner, p) == owner # NoOwner /\ owner # p

\* the open transaction of session p is committed
TxCommit(exists, nxt, owner, p) ==
    [exists |-> exists, nxt |-> nxt,
     owner |-> IF owner = p THEN NoOwner ELSE owner]

\* the open transaction of session p is rolled back: a sequence it created
\* is gone
TxRollback(exists, nxt, owner, p) ==
    IF owner = p
    THEN [exists |-> FALSE, nxt |-> 1, owner |-> NoOwner]
    ELSE [exists |-> exists, nxt |-> nxt, owner |-> owner]

\* except pyodbc.DatabaseError / except Exception: both raise RuntimeError
Raised(msg) == [kind |-> "RuntimeError", msg |-> msg, value |-> NoValue]
Returned(v) == [kind |-> "return", msg |-> <<>>, value |-> v]
NoOutcome   == [kind |-> "none", msg |-> <<>>, value |-> NoValue]

InBatch(p) == pc[p] \in {"check", "create", "lock", "lockcheck", "draw",
                         "release", "select"}

(***************************************************************************)
(* Part I : actions                                                        *)
(***************************************************************************)
\* the store as the first process finds it: the sequence is missing (a new
\* store) or was created and committed earlier
LpidInitState ==
    /\ seqExists \in BOOLEAN
    /\ seqNext = 1
    /\ seqOwner = NoOwner
    /\ held = {}
    /\ pc = [p \in Procs |-> "idle"]
    /\ waited = [p \in Procs |-> 0]
    /\ lockResult = [p \in Procs |-> 0]
    /\ nextLpid = [p \in Procs |-> NoValue]
    /\ outcome = [p \in Procs |-> NoOutcome]
    /\ drawLog = <<>>
    /\ retLog = <<>>

\* a process (one run of main.py) starts, opens its connection and calls
\* generate_lpid, once
CallGenerateLpid(p) ==
    /\ pc[p] = "idle"
    /\ pc' = [pc EXCEPT ![p] = "check"]
    /\ UNCHANGED nonLpidVars
    /\ UNCHANGED <<seqExists, seqNext, seqOwner, held, waited, lockResult, nextLpid,
                    outcome, drawLog, retLog>>

\* IF NOT EXISTS (...) : runs before the lock is requested
CheckSequence(p) ==
    /\ pc[p] = "check"
    /\ ~CatalogBlocked(seqOwner, p)
    /\ pc' = [pc EXCEPT ![p] =
                 IF SequenceMissing(seqExists) THEN "create" ELSE "lock"]
    /\ UNCHANGED nonLpidVars
    /\ UNCHANGED <<seqExists, seqNext, seqOwner, held, waited, lockResult, nextLpid,
                    outcome, drawLog, retLog>>

\* CREATE SEQUENCE ... ; creating a sequence that exists is error 2714: the
\* batch ends there and cursor.execute raises pyodbc.ProgrammingError, which
\* generate_lpid turns into RuntimeError
CreateSequenceStep(p) ==
    /\ pc[p] = "create"
    /\ ~CatalogBlocked(seqOwner, p)
    /\ LET r == CreateSequence(seqExists, seqNext) IN
        /\ seqExists' = r.exists
        /\ seqNext' = r.nxt
        /\ IF r.ok
           THEN /\ pc' = [pc EXCEPT ![p] = "lock"]
                /\ seqOwner' = p
                /\ UNCHANGED outcome
           ELSE /\ pc' = [pc EXCEPT ![p] = "raised"]
                /\ outcome' = [outcome EXCEPT
                                 ![p] = Raised(<<"There is already an object">>)]
                /\ UNCHANGED seqOwner
    /\ UNCHANGED nonLpidVars
    /\ UNCHANGED <<held, waited, lockResult, nextLpid, drawLog, retLog>>

\* the check or the CREATE waits on the catalog lock of a sequence another
\* session created and has not committed; SET LOCK_TIMEOUT ends the wait
\* with error 1222
CatalogLockTimeout(p) ==
    /\ pc[p] \in {"check", "create"}
    /\ CatalogBlocked(seqOwner, p)
    /\ pc' = [pc EXCEPT ![p] = "raised"]
    /\ outcome' = [outcome EXCEPT
                     ![p] = Raised(<<"Lock request time out period exceeded">>)]
    /\ UNCHANGED nonLpidVars
    /\ UNCHANGED <<seqExists, seqNext, seqOwner, held, waited, lockResult,
                   nextLpid, drawLog, retLog>>

\* EXEC @LockResult = sp_getapplock ... : granted, still waiting, or timed out
GetAppLock(p) ==
    /\ pc[p] = "lock"
    /\ IF LockGrantable(held, p)
       THEN /\ held' = held \cup {p}
            /\ lockResult' = [lockResult EXCEPT
                                ![p] = IF waited[p] = 0 THEN 0 ELSE 1]
            /\ pc' = [pc EXCEPT ![p] = "lockcheck"]
            /\ waited' = [waited EXCEPT ![p] = 0]
       ELSE IF LockWaitExpired(waited[p])
       THEN /\ lockResult' = [lockResult EXCEPT ![p] = -1]
            /\ pc' = [pc EXCEPT ![p] = "lockcheck"]
            /\ waited' = [waited EXCEPT ![p] = 0]
            /\ UNCHANGED held
       ELSE /\ waited' = [waited EXCEPT
                            ![p] = IF @ < TimeoutTicks THEN @ + 1 ELSE @]
            /\ UNCHANGED <<held, lockResult, pc>>
    /\ UNCHANGED nonLpidVars
    /\ UNCHANGED <<seqExists, seqNext, seqOwner, nextLpid, outcome,
                   drawLog, retLog>>

\* sp_getapplock chosen as a deadlock victim, or failing for another reason
GetAppLockCanceled(p) ==
    /\ pc[p] = "lock"
    /\ \E code \in OtherLockFailures :
          lockResult' = [lockResult EXCEPT ![p] = code]
    /\ pc' = [pc EXCEPT ![p] = "lockcheck"]
    /\ waited' = [waited EXCEPT ![p] = 0]
    /\ UNCHANGED nonLpidVars
    /\ UNCHANGED <<seqExists, seqNext, seqOwner, held, nextLpid,
                   outcome, drawLog, retLog>>

\* IF @LockResult < 0 BEGIN ... THROW 50000, @ErrorMsg, 1; END
CheckLockResult(p) ==
    /\ pc[p] = "lockcheck"
    /\ IF LockFailed(lockResult[p])
       THEN /\ pc' = [pc EXCEPT ![p] = "raised"]
            /\ outcome' = [outcome EXCEPT
                             ![p] = Raised(ErrorMsg(lockResult[p]))]
       ELSE /\ pc' = [pc EXCEPT ![p] = "draw"]
            /\ UNCHANGED outcome
    /\ UNCHANGED nonLpidVars
    /\ UNCHANGED <<seqExists, seqNext, seqOwner, held, waited, lockResult, nextLpid,
                    drawLog, retLog>>

\* SELECT @NextLpid = NEXT VALUE FOR Lpid.LpidSequence
DrawNextValue(p) ==
    /\ pc[p] = "draw"
    /\ LET r == NextValueFor(seqNext) IN
        /\ nextLpid' = [nextLpid EXCEPT ![p] = r.value]
        /\ seqNext' = r.nxt
        /\ drawLog' = Append(drawLog, [proc |-> p, value |-> r.value,
                                       locked |-> p \in held,
                                       holders |-> held])
    /\ pc' = [pc EXCEPT ![p] = "release"]
    /\ UNCHANGED nonLpidVars
    /\ UNCHANGED <<seqExists, seqOwner, held, waited, lockResult, outcome,
                   retLog>>

\* the draw raises (for instance the query timeout expires): the batch stops,
\* the session-owned lock stays with the session
DrawFails(p) ==
    /\ pc[p] = "draw"
    /\ pc' = [pc EXCEPT ![p] = "raised"]
    /\ outcome' = [outcome EXCEPT ![p] = Raised(<<"Database error">>)]
    /\ UNCHANGED nonLpidVars
    /\ UNCHANGED <<seqExists, seqNext, seqOwner, held, waited, lockResult, nextLpid,
                    drawLog, retLog>>

\* EXEC sp_releaseapplock @Resource = 'LpidLock', @LockOwner = 'Session'
ReleaseAppLock(p) ==
    /\ pc[p] = "release"
    /\ held' = held \ {p}
    /\ pc' = [pc EXCEPT ![p] = "select"]
    /\ UNCHANGED nonLpidVars
    /\ UNCHANGED <<seqExists, seqNext, seqOwner, waited, lockResult, nextLpid,
                   outcome, drawLog, retLog>>

\* SELECT @NextLpid AS NextLPID; result = cursor.fetchone()[0]; return result
ReturnLpid(p) ==
    /\ pc[p] = "select"
    /\ pc' = [pc EXCEPT ![p] = "returned"]
    /\ outcome' = [outcome EXCEPT ![p] = Returned(nextLpid[p])]
    /\ retLog' = Append(retLog, nextLpid[p])
    /\ UNCHANGED nonLpidVars
    /\ UNCHANGED <<seqExists, seqNext, seqOwner, held, waited, lockResult, nextLpid,
                   drawLog>>

\* app_init goes on to DatabaseSchemaService.get_schema_config, whose
\* `with self.db_manager.get_connection() as conn` block is the first to end
\* the transaction generate_lpid left open. The block returns the schema:
\* Connection.__exit__ commits.
SchemaCheckCommits(p) ==
    /\ pc[p] = "returned"
    /\ pc' = [pc EXCEPT ![p] = "done"]
    /\ LET r == TxCommit(seqExists, seqNext, seqOwner, p) IN
        /\ seqExists' = r.exists
        /\ seqNext' = r.nxt
        /\ seqOwner' = r.owner
    /\ UNCHANGED nonLpidVars
    /\ UNCHANGED <<held, waited, lockResult, nextLpid, outcome,
                   drawLog, retLog>>

\* _validate_schema raises ValueError inside the block (a schema or a table
\* is missing): Connection.__exit__ rolls back, get_schema_config swallows
\* the error and the run goes on with the lpid it was given
SchemaCheckRollsBack(p) ==
    /\ pc[p] = "returned"
    /\ pc' = [pc EXCEPT ![p] = "done"]
    /\ LET r == TxRollback(seqExists, seqNext, seqOwner, p) IN
        /\ seqExists' = r.exists
        /\ seqNext' = r.nxt
        /\ seqOwner' = r.owner
    /\ UNCHANGED nonLpidVars
    /\ UNCHANGED <<held, waited, lockResult, nextLpid, outcome,
                   drawLog, retLog>>

\* generate_lpid raised: main logs the error and the process ends; its
\* connection closes, a session-owned lock goes with the session and so does
\* what its open transaction did.  (A process that got its lpid holds neither
\* the lock nor a transaction of the batch once the schema check is over.)
ProcessExit(p) ==
    /\ pc[p] = "raised"
    /\ pc' = [pc EXCEPT ![p] = "exited"]
    /\ held' = held \ {p}
    /\ waited' = [waited EXCEPT ![p] = 0]
    /\ lockResult' = [lockResult EXCEPT ![p] = 0]
    /\ nextLpid' = [nextLpid EXCEPT ![p] = NoValue]
    /\ outcome' = [outcome EXCEPT ![p] = NoOutcome]
    /\ LET r == TxRollback(seqExists, seqNext, seqOwner, p) IN
        /\ seqExists' = r.exists
        /\ seqNext' = r.nxt
        /\ seqOwner' = r.owner
    /\ UNCHANGED nonLpidVars
    /\ UNCHANGED <<drawLog, retLog>>

\* another session of the store takes 'LpidLock' and keeps it as long as it
\* likes
ExternalAcquire ==
    /\ held = {}
    /\ held' = {ExternalHolder}
    /\ UNCHANGED nonLpidVars
    /\ UNCHANGED <<seqExists, seqNext, seqOwner, pc, waited, lockResult, nextLpid,
                    outcome, drawLog, retLog>>

ExternalRelease ==
    /\ ExternalHolder \in held
    /\ held' = held \ {ExternalHolder}
    /\ UNCHANGED nonLpidVars
    /\ UNCHANGED <<seqExists, seqNext, seqOwner, pc, waited, lockResult, nextLpid,
                    outcome, drawLog, retLog>>

(***************************************************************************)
(* Part II : values                                                        *)
(***************************************************************************)
\* field values carry their type, None is <<"none", 0>>
IntV(n)  == <<"int", n>>
StrV(n)  == <<"str", n>>
BoolV(b) == <<"bool", IF b THEN 1 ELSE 0>>
ListV(n) == <<"list", n>>
None     == <<"none", 0>>

\* WB24ReportModel: the fields without a default
RequiredFields ==
    {"nmID", "vendorCode", "discount", "clubDiscount", "editableSizePrice"}

\* a raw record of the remote API; an invalid one lacks vendorCode, an odd
\* one has a non-empty sizes list
RawRecord(n, valid) ==
    LET full == [f \in RequiredFields \cup {"sizes"} |->
                   CASE f = "nmID" -> IntV(n)
                     [] f = "vendorCode" -> StrV(n)
                     [] f = "discount" -> IntV(10 + n)
                     [] f = "clubDiscount" -> IntV(20 + n)
                     [] f = "editableSizePrice" -> BoolV(TRUE)
                     [] OTHER -> ListV(n % 2)]
    IN IF valid THEN full
       ELSE [f \in DOMAIN full \ {"vendorCode"} |-> full[f]]

\* data_model.model_validate(record): every required field is present
ModelValidates(record) == RequiredFields \subseteq DOMAIN record

\* the first error of the ValidationError: a missing required field
FirstMissingField(record) ==
    CHOOSE f \in RequiredFields \ DOMAIN record : TRUE

\* model_obj.model_dump(mode='json'): every field of the model, defaults
\* filled in
ModelDump(record) ==
    [f \in RequiredFields \cup {"sizes", "currencyIsoCode4217", "isBadTurnover"}
       |-> IF f \in DOMAIN record THEN record[f]
           ELSE IF f = "sizes" THEN ListV(0) ELSE None]

\* str(field).replace("'", '"') if field else None: an empty list is None
ToJsonString(field) ==
    IF field = None \/ field = ListV(0) THEN None ELSE <<"json", field[2]>>

\* WB24DataTransformer._clean_data
CleanData_DiscountsSwapped(record) ==
    << record["nmID"], record["vendorCode"], ToJsonString(record["sizes"]),
       record["currencyIsoCode4217"], record["clubDiscount"],
       record["discount"], record["editableSizePrice"],
       record["isBadTurnover"] >>

CleanData(record) ==
    << record["nmID"], record["vendorCode"], ToJsonString(record["sizes"]),
       record["currencyIsoCode4217"], record["discount"],
       record["clubDiscount"], record["editableSizePrice"],
       record["isBadTurnover"] >>

\* WBDataTransformer.process_data, for i = 1..Len(data): the index of the
\* first record that fails validation, 0 when none does
RECURSIVE FirstInvalid(_, _)
FirstInvalid(data, i) ==
    IF i > Len(data) THEN 0
    ELSE IF ~ModelValidates(data[i]) THEN i
    ELSE FirstInvalid(data, i + 1)

ProcessAll(data) == [i \in 1..Len(data) |-> CleanData(ModelDump(data[i]))]

\* WB24APIClient._is_last_batch
IsLastBatch_Inclusive(batch) == Len(batch) <= Limit

IsLastBatch(batch) == Len(batch) < Limit

\* all_products.extend(products)
ExtendProducts_Overwrite(all, products) == products

ExtendProducts(all, products) == all \o products

\* config/settings.py: DB_QUERY_TIMEOUT, the cn.timeout of the connection
DbQueryTimeout == 120

\* @with_query_timeout(60) on WB24Repository.insert
InsertTimeout == 60

\* with_query_timeout: conn.timeout = timeout_seconds
SetTimeout(d, t) == [d EXCEPT !.timeout = t]

\* with_query_timeout: finally: conn.timeout = old_timeout
RestoreTimeout_Keep(d, old) == d

RestoreTimeout(d, old) == [d EXCEPT !.timeout = old]

(***************************************************************************)
(* Part II : the connection (pyodbc) and the store                         *)
(***************************************************************************)
\* pyodbc.connect(...) without autocommit: the connection starts in manual
\* commit mode
NewConnection ==
    [ autocommit |-> FALSE,
      table |-> <<>>,        \* committed rows of wb24_ProductsPricesReport
      txRows |-> <<>>,       \* rows written by the open transaction
      logTable |-> <<>>,     \* committed rows of RawLogdata.LoaderLog
      txEvents |-> <<>>,     \* log rows written by the open transaction
      timeout |-> DbQueryTimeout,  \* cn.timeout = self.query_timeout
      dataCommits |-> 0 ]    \* history: commits that made data rows visible

\* conn.commit()
Commit(d) ==
    [d EXCEPT !.table = @ \o d.txRows,
              !.logTable = @ \o d.txEvents,
              !.txRows = <<>>,
              !.txEvents = <<>>,
              !.dataCommits = IF d.txRows # <<>> THEN @ + 1 ELSE @]

\* conn.rollback()
Rollback(d) == [d EXCEPT !.txRows = <<>>, !.txEvents = <<>>]

\* one INSERT of executemany: in autocommit mode the statement is its own
\* transaction
ExecInsertRow(d, row) ==
    IF d.autocommit
    THEN [d EXCEPT !.table = Append(@, row), !.dataCommits = @ + 1]
    ELSE [d EXCEPT !.txRows = Append(@, row)]

ExecInsertLog(d, ev) ==
    IF d.autocommit
    THEN [d EXCEPT !.logTable = Append(@, ev)]
    ELSE [d EXCEPT !.txEvents = Append(@, ev)]

\* conn.autocommit = b; switching autocommit on commits the open transaction
SetAutocommit(d, b) ==
    IF b /\ ~d.autocommit
    THEN [Commit(d) EXCEPT !.autocommit = TRUE]
    ELSE [d EXCEPT !.autocommit = b]

\* pyodbc Connection.__exit__: in manual commit mode commit, or roll back
\* when the block raised
ConnExit(d, raisedInBlock) ==
    IF d.autocommit THEN d
    ELSE IF raisedInBlock THEN Rollback(d) ELSE Commit(d)

\* conn.autocommit = False at the start of insert
AutocommitDuringInsert_LeftOn == TRUE

AutocommitDuringInsert == FALSE

\* the four leading values of every parameter row
RowPrefix_Swapped(lpid, is_test_data, collection_start_dttm, end) ==
    <<lpid, is_test_data, end, collection_start_dttm>>

RowPrefix(lpid, is_test_data, collection_start_dttm, end) ==
    <<lpid, is_test_data, collection_start_dttm, end>>

\* the column list of the INSERT statement of WB24Repository.insert
InsertColumns ==
    << "Lpid", "IsTestData", "CollectionStartDttm", "CollectionEndDttm",
       "NmID", "VendorCode", "Sizes", "CurrencyISOCode4217", "Discount",
       "ClubDiscount", "EditableSizePrice", "IsBadTurnover" >>

\* WB24ReportModel: the alias of each field, which is the name of the column
\* the field is stored in
ReportAlias(f) ==
    CASE f = "nmID" -> "NmID"
      [] f = "vendorCode" -> "VendorCode"
      [] f = "sizes" -> "Sizes"
      [] f = "currencyIsoCode4217" -> "CurrencyISOCode4217"
      [] f = "discount" -> "Discount"
      [] f = "clubDiscount" -> "ClubDiscount"
      [] f = "editableSizePrice" -> "EditableSizePrice"
      [] f = "isBadTurnover" -> "IsBadTurnover"

\* params = [(lpid, is_test_data, collection_start_dttm, collection_end, *item)
\*           for item in data]
BuildParams(data, lpid, is_test_data, collection_start_dttm, end) ==
    [i \in 1..Len(data) |->
        RowPrefix(lpid, is_test_data, collection_start_dttm, end) \o data[i]]

(***************************************************************************)
(* Part II : the log sink                                                  *)
(***************************************************************************)
Event(code, level) == [code |-> code, level |-> level]

\* DatabaseLogHandler.emit on the state st = [db, emitted]: the row is
\* inserted and committed over the connection of the run; when the insert
\* raises, the with block is left with the exception and emit swallows it
Emit_InTransaction(st, ev, ok) ==
    [ emitted |-> Append(st.emitted, ev),
      db |-> IF ok
             THEN ExecInsertLog(st.db,
                     [code |-> ev.code, level |-> ev.level,
                      lpid |-> runArgs.lpid])
             ELSE st.db ]

Emit(st, ev, ok) ==
    [ emitted |-> Append(st.emitted, ev),
      db |-> IF ok
             THEN ConnExit(Commit(ExecInsertLog(st.db,
                     [code |-> ev.code, level |-> ev.level,
                      lpid |-> runArgs.lpid])), FALSE)
             ELSE ConnExit(st.db, TRUE) ]

RECURSIVE EmitAll(_, _, _)
EmitAll(st, evs, ok) ==
    IF evs = <<>> THEN st
    ELSE EmitAll(Emit(st, Head(evs), ok), Tail(evs), ok)

Codes(evs) == {evs[i].code : i \in 1..Len(evs)}

\* the events whose code names a data write
DataWriteCodes == {"INSERT_DATA_SUCCESS", "INSERT_DATA_ERROR"}

(***************************************************************************)
(* Part III : fetch_data, the HTTP session and its retries                 *)
(***************************************************************************)
\* WBAPISettingsModel.max_retries (ge=0): the values the model runs with
MaxRetries == 1

\* the statuses the remote answers with
Statuses == {200, 404, 503}

\* WB17APISettingsModel / WB24APISettingsModel: status_forcelist
StatusForcelist == {429, 500, 502, 503, 504}

\* WBAPISettingsModel: allowed_methods
AllowedMethods == {"GET", "POST"}

\* s.post(...) in WB17APIClient, s.get(...) in WB24APIClient
Method(client) == IF client = "wb17" THEN "POST" ELSE "GET"

\* urllib3 Retry(total=max_retries, status_forcelist=..., allowed_methods=...)
\* mounted on the session: is the answer one the adapter sends again for
IsRetry(method, status) ==
    method \in AllowedMethods /\ status \in StatusForcelist

\* Retry.is_exhausted after the answers received so far: total=max_retries
\* allows max_retries repeats of the request
RetriesExhausted(answers, max) == answers > max

\* response.raise_for_status()
RaiseForStatus(status) == status >= 400

\* None of Python in a payload or a card
NoneV == 0

\* a card (wb17) or product (wb24) of the remote; updatedAt and nmID are the
\* cursor fields of a card, NoneV when the card lacks the field
Card(n, hasUpdatedAt, hasNmID) ==
    [ id |-> n,
      updatedAt |-> IF hasUpdatedAt THEN 100 + n ELSE NoneV,
      nmID |-> IF hasNmID THEN n ELSE NoneV ]

\* the records of a sequence of answers [cards, total], in order
RECURSIVE Concat(_)
Concat(pages) ==
    IF pages = <<>> THEN <<>> ELSE Head(pages).cards \o Concat(Tail(pages))

\* a page of n records numbered after the records served so far; only the
\* cursor fields of its last card matter
Page(servedBefore, n, hasUpdatedAt, hasNmID) ==
    [i \in 1..n |->
        IF i = n THEN Card(servedBefore + i, hasUpdatedAt, hasNmID)
        ELSE Card(servedBefore + i, TRUE, TRUE)]

\* WB17APIClient._build_payload: settings.cursor of the payload
BuildPayload(cursor) ==
    [limit |-> Limit, updatedAt |-> cursor[1], nmID |-> cursor[2]]

\* WB24APIClient._build_query_params
BuildQueryParams(off) == [limit |-> Limit, offset |-> off]

\* cursor.total of a wb17 response that carries none
NoTotal == -1

\* WB17APIClient._is_last_batch
IsLastBatch17_Never(cards, total) == FALSE

IsLastBatch17(cards, total) ==
    \/ Len(cards) < Limit
    \/ (total # NoTotal /\ Len(cards) > total)

\* updated_at = last_card.get('updatedAt'); nm_id = last_card.get('nmID')
NextCursor_FirstCard(cursor, cards) ==
    <<cards[1].updatedAt, cards[1].nmID>>

NextCursor(cursor, cards) ==
    <<cards[Len(cards)].updatedAt, cards[Len(cards)].nmID>>

\* if updated_at is None or nm_id is None
CursorIncomplete_OnlyBoth(cursor) == cursor[1] = NoneV /\ cursor[2] = NoneV

CursorIncomplete(cursor) == cursor[1] = NoneV \/ cursor[2] = NoneV

\* self.offset += len(products)
NextOffset_Reset(off, products) == Len(products)

NextOffset(off, products) == off + Len(products)

\* the except clauses of fetch_data: what leaves fetch_data when `type` is
\* raised inside the try block.  WB17APIClient re-raises a RequestException
\* and has no clause for anything else; WB24APIClient raises
\* APIRequestException from both clauses.
IsRequestException(type) == type \in {"HTTPError", "RetryError"}

RaisedAs(client, type) ==
    IF client = "wb24" THEN "APIRequestException" ELSE type

\* both except clauses end in raise: the loop is left with the exception
HandlerOutcome_Swallow(client, type) == "returned"

HandlerOutcome(client, type) == "raised"

HandlerEvents(client, type) ==
    IF IsRequestException(type) THEN <<"API_ERROR">>
    ELSE IF client = "wb24" THEN <<"UNKNOWN_ERROR">>
    ELSE <<>>

NoFetchExc == [type |-> "none", cause |-> "none"]
NotPassed == <<[nothing |-> TRUE]>>

FetchIdleState ==
    /\ fClient = "wb24"
    /\ fpc = "off"
    /\ fMaxRetries = 0
    /\ fInitOffset = 0
    /\ fOffset = 0
    /\ fCursor = <<NoneV, NoneV>>
    /\ fAll = <<>>
    /\ fPages = <<>>
    /\ fReqLog = <<>>
    /\ fAttempt = 0
    /\ fExc = NoFetchExc
    /\ fEvents = <<>>
    /\ fPassed = NotPassed

\* WBService.run is about to call fetch_data of a client built from the
\* api settings: all_cards = [], updated_at = None, nm_id = None
FetchInitState ==
    /\ fClient \in {"wb17", "wb24"}
    /\ fpc = "build"
    /\ fMaxRetries \in 0..MaxRetries
    /\ fInitOffset \in IF fClient = "wb24" THEN {0, 1} ELSE {0}
    /\ fOffset = fInitOffset
    /\ fCursor = <<NoneV, NoneV>>
    /\ fAll = <<>>
    /\ fPages = <<>>
    /\ fReqLog = <<>>
    /\ fAttempt = 0
    /\ fExc = NoFetchExc
    /\ fEvents = <<>>
    /\ fPassed = NotPassed

\* an exception of `type` is raised inside the try block of the loop
FetchRaises(type, evs) ==
    /\ fExc' = [type |-> RaisedAs(fClient, type), cause |-> type]
    /\ fEvents' = fEvents \o evs \o HandlerEvents(fClient, type)
    /\ fpc' = HandlerOutcome(fClient, type)

\* the keyword arguments of the request: s.post(url, json=payload,
\* timeout=self.timeout) in wb17, s.get(url=self.api_url, params=params) in
\* wb24
RequestKwargs(client) ==
    IF client = "wb17" THEN {"url", "json", "timeout"}
    ELSE {"url", "params"}

\* the top of the loop: the payload (wb17) or the query parameters (wb24)
\* are built and the request is sent
FetchSend ==
    /\ fpc = "build"
    /\ Len(fReqLog) < MaxPages
    /\ fReqLog' = Append(fReqLog,
                         IF fClient = "wb17" THEN BuildPayload(fCursor)
                         ELSE BuildQueryParams(fOffset))
    /\ fAttempt' = 0
    /\ fpc' = "wait"
    /\ UNCHANGED <<fClient, fMaxRetries, fInitOffset, fOffset, fCursor, fAll,
                   fPages, fExc, fEvents, fPassed>>
    /\ UNCHANGED <<lpidVars, runVars, transVars, setVars, mainVars>>

\* the answer has a status of the retry set and the budget of this request
\* is not used up: the adapter sends the request again, fetch_data does not
\* see it
FetchRetry ==
    /\ fpc = "wait"
    /\ \E status \in Statuses :
          /\ IsRetry(Method(fClient), status)
          /\ ~RetriesExhausted(fAttempt + 1, fMaxRetries)
    /\ fAttempt' = fAttempt + 1
    /\ UNCHANGED <<fClient, fpc, fMaxRetries, fInitOffset, fOffset, fCursor,
                   fAll, fPages, fReqLog, fExc, fEvents, fPassed>>
    /\ UNCHANGED <<lpidVars, runVars, transVars, setVars, mainVars>>

\* the answer has a status of the retry set and the budget is used up:
\* requests raises RetryError
FetchRetriesExhausted ==
    /\ fpc = "wait"
    /\ \E status \in Statuses :
          /\ IsRetry(Method(fClient), status)
          /\ RetriesExhausted(fAttempt + 1, fMaxRetries)
    /\ fAttempt' = fAttempt + 1
    /\ FetchRaises("RetryError", <<>>)
    /\ UNCHANGED <<fClient, fMaxRetries, fInitOffset, fOffset, fCursor, fAll,
                   fPages, fReqLog, fPassed>>
    /\ UNCHANGED <<lpidVars, runVars, transVars, setVars, mainVars>>

\* the answer has an error status outside the retry set:
\* response.raise_for_status() raises HTTPError
FetchStatusError ==
    /\ fpc = "wait"
    /\ \E status \in Statuses :
          /\ ~IsRetry(Method(fClient), status)
          /\ RaiseForStatus(status)
    /\ fAttempt' = fAttempt + 1
    /\ FetchRaises("HTTPError", <<>>)
    /\ UNCHANGED <<fClient, fMaxRetries, fInitOffset, fOffset, fCursor, fAll,
                   fPages, fReqLog, fPassed>>
    /\ UNCHANGED <<lpidVars, runVars, transVars, setVars, mainVars>>

\* WB17APIClient.fetch_data: the answer is 200 with n cards and cursor.total
FetchPage17 ==
    /\ fpc = "wait"
    /\ fClient = "wb17"
    /\ \E n \in 0..Limit, hasU \in BOOLEAN, hasN \in BOOLEAN,
          total \in {NoTotal} \cup 0..Limit :
        /\ total \in {NoTotal, n, n - 1}
        /\ (Len(fReqLog) = MaxPages) =>
              (n < Limit \/ (total # NoTotal /\ total < n))
        /\ LET cards == Page(Len(Concat(fPages)), n, hasU, hasN)
               cursor == NextCursor(fCursor, cards)
           IN
           /\ fPages' = Append(fPages, [cards |-> cards, total |-> total])
           /\ fAttempt' = fAttempt + 1
           /\ IF cards = <<>>
              THEN /\ FetchRaises("Exception", <<"EXTRACT_DATA_ERROR">>)
                   /\ UNCHANGED <<fAll, fCursor>>
              ELSE IF IsLastBatch17(cards, total)
              THEN /\ fAll' = ExtendProducts(fAll, cards)
                   /\ fEvents' = fEvents \o <<"EXTRACT_DATA_SUCCESS",
                                              "EXTRACT_DATA_SUCCESS">>
                   /\ fpc' = "returned"
                   /\ UNCHANGED <<fCursor, fExc>>
              ELSE IF CursorIncomplete(cursor)
              THEN /\ fAll' = ExtendProducts(fAll, cards)
                   /\ fCursor' = cursor
                   /\ FetchRaises("Exception", <<"EXTRACT_DATA_SUCCESS",
                                                 "EXTRACT_DATA_ERROR">>)
              ELSE /\ fAll' = ExtendProducts(fAll, cards)
                   /\ fCursor' = cursor
                   /\ fEvents' = Append(fEvents, "EXTRACT_DATA_SUCCESS")
                   /\ fpc' = "build"
                   /\ UNCHANGED fExc
    /\ UNCHANGED <<fClient, fMaxRetries, fInitOffset, fOffset, fReqLog,
                   fPassed>>
    /\ UNCHANGED <<lpidVars, runVars, transVars, setVars, mainVars>>

\* WB24APIClient.fetch_data: the answer is 200 with n products
FetchPage24 ==
    /\ fpc = "wait"
    /\ fClient = "wb24"
    /\ \E n \in 0..Limit :
        /\ (Len(fReqLog) = MaxPages) => n < Limit
        /\ LET products == Page(Len(Concat(fPages)), n, TRUE, TRUE) IN
           /\ fPages' = Append(fPages,
                                [cards |-> products, total |-> NoTotal])
           /\ fAttempt' = fAttempt + 1
           /\ IF products = <<>>
              THEN /\ FetchRaises("APIRequestException",
                                  <<"EXTRACT_DATA_ERROR">>)
                   /\ UNCHANGED <<fAll, fOffset>>
              ELSE IF IsLastBatch(products)
              THEN /\ fAll' = ExtendProducts(fAll, products)
                   /\ fEvents' = fEvents \o <<"EXTRACT_DATA_SUCCESS",
                                              "EXTRACT_DATA_SUCCESS">>
                   /\ fpc' = "returned"
                   /\ UNCHANGED <<fOffset, fExc>>
              ELSE /\ fAll' = ExtendProducts(fAll, products)
                   /\ fOffset' = NextOffset(fOffset, products)
                   /\ fEvents' = Append(fEvents, "EXTRACT_DATA_SUCCESS")
                   /\ fpc' = "build"
                   /\ UNCHANGED fExc
    /\ UNCHANGED <<fClient, fMaxRetries, fInitOffset, fCursor, fReqLog,
                   fPassed>>
    /\ UNCHANGED <<lpidVars, runVars, transVars, setVars, mainVars>>

\* WBService.run: raw_data = self._api_client.fetch_data() has returned and
\* raw_data goes to process_data
RunTakesRawData ==
    /\ fpc = "returned"
    /\ fPassed' = fAll
    /\ fpc' = "processing"
    /\ UNCHANGED <<fClient, fMaxRetries, fInitOffset, fOffset, fCursor, fAll,
                   fPages, fReqLog, fAttempt, fExc, fEvents>>
    /\ UNCHANGED <<lpidVars, runVars, transVars, setVars, mainVars>>

\* WBService.run: fetch_data has raised; the except clause logs EXCEPTION
\* and re-raises, process_data and insert are not called
RunFetchFailed ==
    /\ fpc = "raised"
    /\ fEvents' = Append(fEvents, "EXCEPTION")
    /\ fpc' = "run_failed"
    /\ UNCHANGED <<fClient, fMaxRetries, fInitOffset, fOffset, fCursor, fAll,
                   fPages, fReqLog, fAttempt, fExc, fPassed>>
    /\ UNCHANGED <<lpidVars, runVars, transVars, setVars, mainVars>>

NextFetch ==
    \/ FetchSend
    \/ FetchRetry
    \/ FetchRetriesExhausted
    \/ FetchStatusError
    \/ FetchPage17
    \/ FetchPage24
    \/ RunTakesRawData
    \/ RunFetchFailed

(***************************************************************************)
(* Part IV : WBDataTransformer.process_data, record by record              *)
(***************************************************************************)
\* the longest list of raw records handed to process_data
MaxRecords == 3

\* the raw records process_data meets: a complete one, one without
\* vendorCode, one without discount
RecordKinds == {"ok", "noVendorCode", "noDiscount"}

TRecord(n, kind) ==
    LET full == RawRecord(n, TRUE) IN
    CASE kind = "ok" -> full
      [] kind = "noVendorCode" ->
            [f \in DOMAIN full \ {"vendorCode"} |-> full[f]]
      [] OTHER -> [f \in DOMAIN full \ {"discount"} |-> full[f]]

\* _validate_data: f"{msg}: {loc}" of the first error of the ValidationError
ValidationMsg(record) == <<"Field required", FirstMissingField(record)>>

\* except Exception as e: ...; raise DataProcessingError(str(e)) -- the loop
\* is left at record i
AfterInvalid_Skip(i) == [pc |-> "loop", idx |-> i + 1]

AfterInvalid(i) == [pc |-> "raised", idx |-> i]

\* if not processed_data
NothingProcessed_Never(out) == FALSE

NothingProcessed(out) == out = <<>>

NoTExc == [type |-> "none", msg |-> <<>>]

TransIdleState ==
    /\ tpc = "off"
    /\ tData = <<>>
    /\ tIdx = 1
    /\ tOut = <<>>
    /\ tExc = NoTExc
    /\ tEvents = <<>>
    /\ tInserted = <<>>

\* WBService.run is about to call process_data(raw_data): processed_data = []
TransInitState ==
    /\ tpc = "loop"
    /\ \E n \in 0..MaxRecords :
         \E kinds \in [1..n -> RecordKinds] :
            tData = [i \in 1..n |-> TRecord(i, kinds[i])]
    /\ tIdx = 1
    /\ tOut = <<>>
    /\ tExc = NoTExc
    /\ tEvents = <<>>
    /\ tInserted = <<>>

\* one turn of `for record in data`
ProcessRecord ==
    /\ tpc = "loop"
    /\ tIdx <= Len(tData)
    /\ IF ModelValidates(tData[tIdx])
       THEN /\ tOut' = Append(tOut, CleanData(ModelDump(tData[tIdx])))
            /\ tIdx' = tIdx + 1
            /\ UNCHANGED <<tpc, tExc, tEvents>>
       ELSE /\ tEvents' = tEvents \o
                          <<"VALIDATE_DATA_ERROR", "TRANSFORM_DATA_ERROR">>
            /\ tExc' = [type |-> "DataProcessingError",
                        msg |-> ValidationMsg(tData[tIdx])]
            /\ tpc' = AfterInvalid(tIdx).pc
            /\ tIdx' = AfterInvalid(tIdx).idx
            /\ UNCHANGED tOut
    /\ UNCHANGED <<tData, tInserted>>
    /\ UNCHANGED <<lpidVars, runVars, fetchVars, setVars, mainVars>>

\* after the loop: if not processed_data: raise; else return processed_data
ProcessFinish ==
    /\ tpc = "loop"
    /\ tIdx > Len(tData)
    /\ IF NothingProcessed(tOut)
       THEN /\ tEvents' = Append(tEvents, "INSERT_DATA_ERROR")
            /\ tExc' = [type |-> "DataProcessingError",
                        msg |-> <<"No data to be inserted in the DB">>]
            /\ tpc' = "raised"
       ELSE /\ tEvents' = Append(tEvents, "TRANSFORM_DATA_SUCCESS")
            /\ tpc' = "returned"
            /\ UNCHANGED tExc
    /\ UNCHANGED <<tData, tIdx, tOut, tInserted>>
    /\ UNCHANGED <<lpidVars, runVars, fetchVars, setVars, mainVars>>

\* WBService.run: self._data_repository.insert(data=processed_data, ...)
RunCallsInsert ==
    /\ tpc = "returned"
    /\ tInserted' = Append(tInserted, tOut)
    /\ tpc' = "inserting"
    /\ UNCHANGED <<tData, tIdx, tOut, tExc, tEvents>>
    /\ UNCHANGED <<lpidVars, runVars, fetchVars, setVars, mainVars>>

\* WBService.run: except Exception as e: logger.error(...); raise
RunProcessFailed ==
    /\ tpc = "raised"
    /\ tEvents' = Append(tEvents, "EXCEPTION")
    /\ tpc' = "run_failed"
    /\ UNCHANGED <<tData, tIdx, tOut, tExc, tInserted>>
    /\ UNCHANGED <<lpidVars, runVars, fetchVars, setVars, mainVars>>

NextProcess ==
    \/ ProcessRecord
    \/ ProcessFinish
    \/ RunCallsInsert
    \/ RunProcessFailed

(***************************************************************************)
(* Part V : the fetch settings -- WBAPISettingsRepository.retrieve,        *)
(* WBAPISettingsTransformer.process_data, WBService._init_api_client and   *)
(* the constructor of the client                                           *)
(***************************************************************************)
\* the most columns beyond EndpointUrl, Id, IsTestData a settings row
\* carries, and the most scenario arguments a caller gives
MaxSupplied == 1

\* the fetch settings and the column (alias) of each
SettingsFields ==
    {"api_url", "limit", "max_retries", "backoff_factor", "status_forcelist",
     "allowed_methods", "timeout"}

Alias(f) ==
    CASE f = "api_url" -> "EndpointUrl"
      [] f = "limit" -> "Limit"
      [] f = "max_retries" -> "MaxRetries"
      [] f = "backoff_factor" -> "BackoffFactor"
      [] f = "status_forcelist" -> "StatusForcelist"
      [] f = "allowed_methods" -> "AllowedMethods"
      [] f = "timeout" -> "RequestTimeout"
      [] f = "load_params_id" -> "LoadParamsId"
      [] OTHER -> "IsTestData"

\* the fields of WB17APISettingsModel / WB24APISettingsModel
ModelFields(scenario) ==
    SettingsFields \cup {"load_params_id", "is_test_data"}
        \cup (IF scenario = "wb24" THEN {"offset"} ELSE {})

\* a value is known by where it comes from
DefaultV(f) == <<"default", f>>
RowV(f) == <<"row", f>>
ArgV(f) == <<"arg", f>>

\* a column value the strict model rejects (a NULL, an int for a str)
BadV == <<"bad", "bad">>

\* self.data_model() dumped: _get_default_settings
DefaultSettings(scenario) == [f \in ModelFields(scenario) |-> DefaultV(f)]

\* the columns _row_to_dict reads
CoreColumns == {"EndpointUrl", "Id", "IsTestData"}

\* the other columns the model has an alias for
OtherColumns == {Alias(f) : f \in SettingsFields \ {"api_url"}}

\* retrieve returned None
NoRow == [None |-> "None"]

\* _row_to_dict: an attribute the row lacks raises
RowConverts(row) == CoreColumns \subseteq DOMAIN row

RowToDict(row) ==
    [a \in {"EndpointUrl", "LoadParamsId", "IsTestData"} |->
        IF a = "LoadParamsId" THEN row["Id"] ELSE row[a]]

\* _validate_data(row_dict): strict validation of the values given
DictValidates(d) == \A a \in DOMAIN d : d[a] # BadV

\* the row gets through _row_to_dict and _validate_data
RowUsable_Unvalidated(row) == RowConverts(row)

RowUsable(row) == RowConverts(row) /\ DictValidates(RowToDict(row))

\* _model_to_dict(model_obj, mode='python') of the model validated from d
ModelToDict(scenario, d) ==
    [f \in ModelFields(scenario) |->
        IF Alias(f) \in DOMAIN d /\ f # "offset" THEN d[Alias(f)]
        ELSE DefaultV(f)]

\* WBAPISettingsTransformer.process_data(data)
SettingsProcessData(scenario, data) ==
    IF data = NoRow THEN DefaultSettings(scenario)
    ELSE IF RowUsable(data) THEN ModelToDict(scenario, RowToDict(data))
    ELSE DefaultSettings(scenario)

SettingsEvents(data) ==
    IF data = NoRow THEN <<"LOAD_CONFIG_ERROR">>
    ELSE IF ~RowConverts(data)
    THEN <<"TRANSFORM_DATA_ERROR", "TRANSFORM_DATA_ERROR">>
    ELSE IF ~DictValidates(RowToDict(data))
    THEN <<"VALIDATE_DATA_ERROR", "TRANSFORM_DATA_ERROR">>
    ELSE <<>>

\* api_settings.update(self._scenario_args or {})
UpdateSettings(settings, args) ==
    [f \in DOMAIN settings \cup DOMAIN args |->
        IF f \in DOMAIN args THEN args[f] ELSE settings[f]]

\* a setting the client reads but hands to no request
Unused == <<"unused", "unused">>

\* what the client works with: WB17APIClient posts with timeout=self.timeout,
\* WB24APIClient.fetch_data gives s.get no timeout
ClientUses(scenario, settings) ==
    [f \in SettingsFields |->
        IF scenario = "wb24" /\ f = "timeout" THEN Unused ELSE settings[f]]

SetIdleState ==
    /\ spc = "off"
    /\ sScenario = "wb24"
    /\ sTable = [state |-> "absent", row |-> NoRow]
    /\ sArgs = <<>>
    /\ sDbRow = NoRow
    /\ sSettings = <<>>
    /\ sEvents = <<>>
    /\ sClient = <<>>

\* a row of the table: some of the columns _row_to_dict reads, each with a
\* value the model takes or rejects, and at most MaxSupplied other columns
SetInitState ==
    /\ spc = "retrieve"
    /\ sScenario \in {"wb17", "wb24"}
    /\ \/ /\ sTable \in {[state |-> s, row |-> NoRow] :
                            s \in {"absent", "queryfails"}}
       \/ \E core \in SUBSET CoreColumns, extra \in SUBSET OtherColumns :
            /\ Cardinality(extra) <= MaxSupplied
            /\ \E ok \in [core -> BOOLEAN] :
                 sTable = [state |-> "row",
                           row |-> [a \in core \cup extra |->
                                      IF a \in core /\ ~ok[a] THEN BadV
                                      ELSE RowV(a)]]
    /\ \E given \in SUBSET SettingsFields :
         /\ Cardinality(given) <= MaxSupplied
         /\ sArgs = [f \in given |-> ArgV(f)]
    /\ sDbRow = NoRow
    /\ sSettings = <<>>
    /\ sEvents = <<>>
    /\ sClient = <<>>

\* db_row = self._api_settings_repo.retrieve(scenario, is_debug): the row, or
\* None when there is none or the query raised
Retrieve ==
    /\ spc = "retrieve"
    /\ sDbRow' = IF sTable.state = "row" THEN sTable.row ELSE NoRow
    /\ sEvents' = IF sTable.state = "row" THEN sEvents
                  ELSE Append(sEvents, "LOAD_CONFIG_ERROR")
    /\ spc' = "process_data"
    /\ UNCHANGED <<sScenario, sTable, sArgs, sSettings, sClient>>
    /\ UNCHANGED <<lpidVars, runVars, fetchVars, transVars, mainVars>>

\* api_settings = self._api_settings_dto.process_data(db_row)
InitApiSettings ==
    /\ spc = "process_data"
    /\ sSettings' = SettingsProcessData(sScenario, sDbRow)
    /\ sEvents' = sEvents \o SettingsEvents(sDbRow)
                     \o <<"LOAD_CONFIG_SUCCESS">>
    /\ spc' = "update"
    /\ UNCHANGED <<sScenario, sTable, sArgs, sDbRow, sClient>>
    /\ UNCHANGED <<lpidVars, runVars, fetchVars, transVars, mainVars>>

\* api_settings.update(scenario_args); self._api_client_class(api_settings)
InitApiClient ==
    /\ spc = "update"
    /\ sSettings' = UpdateSettings(sSettings, sArgs)
    /\ sClient' = ClientUses(sScenario, sSettings')
    /\ sEvents' = Append(sEvents, "INIT_SUCCESS")
    /\ spc' = "ready"
    /\ UNCHANGED <<sScenario, sTable, sArgs, sDbRow>>
    /\ UNCHANGED <<lpidVars, runVars, fetchVars, transVars, mainVars>>

NextSettings ==
    \/ Retrieve
    \/ InitApiSettings
    \/ InitApiClient

(***************************************************************************)
(* Part VI : main -- the command line, app_init, the log sink, the         *)
(* resolution of the scenario by WBApp, WBService.run and the exit         *)
(***************************************************************************)
\* config/settings.py: the keys of SCENARIOS
Registered == {"wb17", "wb24"}

\* the scenario names given on the command line
ScenarioNames == Registered \cup {"wb99"}

\* what the scenario directory of a deployment can hold: the shipped
\* service.py, no service.py, a service.py without the class <NAME>Service,
\* one whose class does not inherit WBService, one whose class leaves a _set_
\* method of WBService abstract
Implementations == {"shipped", "nofile", "noclass", "notsubclass", "abstract"}

\* LoggingEventCodeEnum
LoggingEventCodes ==
    { "APP_START", "LOAD_CONFIG_SUCCESS", "LOAD_CONFIG_ERROR",
      "EXTRACT_DATA_SUCCESS", "EXTRACT_DATA_ERROR", "LOAD_DATA_SUCCESS",
      "LOAD_DATA_ERROR", "INIT_SUCCESS", "INIT_ERROR",
      "TRANSFORM_DATA_SUCCESS", "TRANSFORM_DATA_ERROR", "VALIDATION_ERROR",
      "VALIDATION_SUCCESS", "INSERT_DATA_SUCCESS", "INSERT_DATA_ERROR",
      "EXCEPTION", "API_ERROR", "API_WARNING", "DB_ERROR", "UNEXPECTED_ERROR",
      "APP_FINISHED" }

\* the capabilities of a pipeline: what WBService.__init__ binds
Capabilities ==
    { "fetch_client", "validation_model", "transformer", "repository",
      "settings_model" }

\* lpid is None
NoLpid == 0

\* the values the sequence of the store can stand at when the process starts
MaxSeqStart == 2

NoService == [caps |-> {}, lpid |-> NoLpid]
NoMExc == [type |-> "none", cause |-> "none", stage |-> "none"]
NoHandler == [installed |-> FALSE, lpid |-> NoLpid]

\* the except clause of emit: print("Failed to write log to database ...")
DiagOnFailure_Silent(diag, ev) == diag

DiagOnFailure(diag, ev) == Append(diag, ev)

\* a call of the logger on st = [emitted, calls, log, diag]: with the
\* DatabaseLogHandler on the root logger, emit builds the row with the lpid
\* of the handler and inserts and commits it; when the store refuses, emit
\* prints and returns
MLog(st, ev) ==
    LET e == Append(st.emitted, ev) IN
    IF ~mHandler.installed THEN [st EXCEPT !.emitted = e]
    ELSE IF mSinkUp
    THEN [st EXCEPT !.emitted = e,
                    !.calls = Append(@, "log"),
                    !.log = Append(@, [code |-> ev.code, level |-> ev.level,
                                       lpid |-> mHandler.lpid])]
    ELSE [st EXCEPT !.emitted = e,
                    !.calls = Append(@, "log"),
                    !.diag = DiagOnFailure(@, ev)]

RECURSIVE MLogAll(_, _)
MLogAll(st, evs) ==
    IF evs = <<>> THEN st ELSE MLogAll(MLog(st, Head(evs)), Tail(evs))

MSt == [emitted |-> mEmitted, calls |-> mCalls, log |-> mLogTable,
        diag |-> mDiag]

\* the logger is called with evs after the calls named in calls were made
MainLogs(calls, evs) ==
    LET st == MLogAll([MSt EXCEPT !.calls = @ \o calls], evs) IN
    /\ mEmitted' = st.emitted
    /\ mCalls' = st.calls
    /\ mLogTable' = st.log
    /\ mDiag' = st.diag

\* an exception leaves the try block of main
MainRaises_Retry(type, cause, stage) ==
    /\ mExc' = [type |-> type, cause |-> cause, stage |-> stage]
    /\ mpc' = mpc

MainRaises(type, cause, stage) ==
    /\ mExc' = [type |-> type, cause |-> cause, stage |-> stage]
    /\ mpc' = "except"

\* WBApp.__init__: self.lpid = lpid or db_manager.generate_lpid()
AppLpid_Fresh(lpid, fresh) == fresh

AppLpid(lpid, fresh) == IF lpid # NoLpid THEN lpid ELSE fresh

\* _load_spec and _parse_service_class: the exception they raise
ResolveRaises(impl) ==
    CASE impl = "nofile" -> "FileNotFoundError"
      [] impl = "noclass" -> "ImportError"
      [] impl = "notsubclass" -> "TypeError"
      [] impl = "abstract" -> "TypeError"
      [] OTHER -> "none"

\* _load_scenario: except (ImportError, AttributeError, TypeError)
LoadScenarioCatches(type) ==
    type \in {"ImportError", "AttributeError", "TypeError"}

\* what leaves get_service_instance when type is raised under _load_scenario
SurfacedAs(type) ==
    IF LoadScenarioCatches(type) THEN "LoadScenarioException" ELSE type

\* get_service_instance: except LoadScenarioException logs LOAD_CONFIG_ERROR
SurfacedEvents(type) ==
    IF LoadScenarioCatches(type)
    THEN << Event("LOAD_CONFIG_ERROR", "ERROR") >>
    ELSE <<>>

\* what get_service_instance hands to main: the constructed service, and
\* nothing when the constructor raised
ResolveResult_Partial(bound, completed, lpid) == [caps |-> bound, lpid |-> lpid]

ResolveResult(bound, completed, lpid) ==
    IF completed THEN [caps |-> bound, lpid |-> lpid] ELSE NoService

\* if __name__ == "__main__": main() -- the value main returns is dropped and
\* the interpreter ends with status 0
ExitStatusOfReturn(value) == 0

\* sys.exit(code), and an exception that leaves main uncaught
ExitStatusOfExit(code) == code

\* parser.error: argparse prints the usage and exits with status 2
UsageErrorStatus == 2

\* if args.bot == True or BOT_NOTIFICATIONS == True; BOT_NOTIFICATIONS is
\* False or the text of the environment variable, never True
NotifyEnabled(bot) == bot

\* TelegramBotNotificationSender(bot_path).send(...): sent, the exception of
\* the sender (caught and printed), or another exception (Path(None))
NotifyOutcomes == {"sent", "TelegramBotNotificationException", "TypeError"}

MainIdleState ==
    /\ mpc = "off"
    /\ mArgs = [scenario |-> "wb24", bot |-> FALSE]
    /\ mRegistry = [n \in Registered |-> TRUE]
    /\ mImpl = "shipped"
    /\ mSinkUp = TRUE
    /\ mSeq = 1
    /\ mMinted = <<>>
    /\ mLpid = NoLpid
    /\ mHandler = NoHandler
    /\ mAppLpid = NoLpid
    /\ mBound = {}
    /\ mService = NoService
    /\ mCalls = <<>>
    /\ mLogTable = <<>>
    /\ mDiag = <<>>
    /\ mEmitted = <<>>
    /\ mDataTable = <<>>
    /\ mExc = NoMExc
    /\ mNotify = "none"
    /\ mOutcome = "none"
    /\ mStatus = -1

\* the process has been started: a command line, a registry, a scenario
\* directory; the sequence of the store stands at any value
MainInitState ==
    /\ mpc = "parse"
    /\ \E n \in ScenarioNames, b \in BOOLEAN :
          mArgs = [scenario |-> n, bot |-> b]
    /\ mRegistry \in [Registered -> BOOLEAN]
    /\ mImpl \in Implementations
    /\ mSinkUp = TRUE
    /\ mSeq \in 1..MaxSeqStart
    /\ mMinted = <<>>
    /\ mLpid = NoLpid
    /\ mHandler = NoHandler
    /\ mAppLpid = NoLpid
    /\ mBound = {}
    /\ mService = NoService
    /\ mCalls = <<>>
    /\ mLogTable = <<>>
    /\ mDiag = <<>>
    /\ mEmitted = <<>>
    /\ mDataTable = <<>>
    /\ mExc = NoMExc
    /\ mNotify = "none"
    /\ mOutcome = "none"
    /\ mStatus = -1

\* CliConfig().parse_arguments(): --scenario has choices=SCENARIOS.keys()
MainParse ==
    /\ mpc = "parse"
    /\ IF mArgs.scenario \notin Registered
       THEN /\ mStatus' = UsageErrorStatus
            /\ mOutcome' = "usage_error"
            /\ mpc' = "exited"
       ELSE /\ mpc' = "app_init"
            /\ UNCHANGED <<mStatus, mOutcome>>
    /\ UNCHANGED <<mArgs, mRegistry, mImpl, mSinkUp, mSeq, mMinted, mLpid,
                   mHandler, mAppLpid, mBound, mService, mCalls, mLogTable,
                   mDiag, mEmitted, mDataTable, mExc, mNotify>>
    /\ UNCHANGED <<lpidVars, runVars, fetchVars, transVars, setVars>>

\* app_init: lpid = db_manager.generate_lpid(); its except clauses log
\* DB_ERROR and raise RuntimeError from the error of the store
MainGenerateLpid ==
    /\ mpc = "app_init"
    /\ \E ok \in BOOLEAN :
          IF ok
          THEN /\ mLpid' = mSeq
               /\ mSeq' = mSeq + 1
               /\ mMinted' = Append(mMinted, mSeq)
               /\ MainLogs(<<"generate_lpid">>, <<>>)
               /\ mpc' = "schema"
               /\ UNCHANGED mExc
          ELSE /\ MainLogs(<<"generate_lpid">>, << Event("DB_ERROR", "ERROR") >>)
               /\ MainRaises("RuntimeError", "pyodbc.Error", "lpid")
               /\ UNCHANGED <<mLpid, mSeq, mMinted>>
    /\ UNCHANGED <<mArgs, mRegistry, mImpl, mSinkUp, mHandler, mAppLpid,
                   mBound, mService, mDataTable, mNotify, mOutcome, mStatus>>
    /\ UNCHANGED <<lpidVars, runVars, fetchVars, transVars, setVars>>

\* app_init: schema_service.get_schema_config() queries the store and gives
\* the default schema when the query fails; setup_logging puts the
\* DatabaseLogHandler with this lpid on the root logger
MainSetupLogging ==
    /\ mpc = "schema"
    /\ MainLogs(<<"schema">>, <<>>)
    /\ mHandler' = [installed |-> TRUE, lpid |-> mLpid]
    /\ mpc' = "log_start"
    /\ UNCHANGED <<mArgs, mRegistry, mImpl, mSinkUp, mSeq, mMinted, mLpid,
                   mAppLpid, mBound, mService, mDataTable, mExc, mNotify,
                   mOutcome, mStatus>>
    /\ UNCHANGED <<lpidVars, runVars, fetchVars, transVars, setVars>>

\* log_application_start
MainLogStart ==
    /\ mpc = "log_start"
    /\ MainLogs(<<>>, << Event("APP_START", "INFO"),
                         Event("LOAD_CONFIG", "INFO") >>)
    /\ mpc' = "lookup"
    /\ UNCHANGED <<mArgs, mRegistry, mImpl, mSinkUp, mSeq, mMinted, mLpid,
                   mHandler, mAppLpid, mBound, mService, mDataTable, mExc,
                   mNotify, mOutcome, mStatus>>
    /\ UNCHANGED <<lpidVars, runVars, fetchVars, transVars, setVars>>

\* scenario = SCENARIOS.get(args.scenario); if not scenario: log, return 1
MainLookup ==
    /\ mpc = "lookup"
    /\ IF ~mRegistry[mArgs.scenario]
       THEN /\ MainLogs(<<>>, << Event("LOAD_CONFIG_ERROR", "ERROR") >>)
            /\ mStatus' = ExitStatusOfReturn(1)
            /\ mOutcome' = "unknown_scenario"
            /\ mpc' = "exited"
       ELSE /\ mpc' = "wbapp"
            /\ UNCHANGED <<mCalls, mLogTable, mDiag, mEmitted, mStatus,
                           mOutcome>>
    /\ UNCHANGED <<mArgs, mRegistry, mImpl, mSinkUp, mSeq, mMinted, mLpid,
                   mHandler, mAppLpid, mBound, mService, mDataTable, mExc,
                   mNotify>>
    /\ UNCHANGED <<lpidVars, runVars, fetchVars, transVars, setVars>>

\* WBApp(..., db_manager=db_manager, lpid=lpid, ...)
MainWBApp ==
    /\ mpc = "wbapp"
    /\ LET v == AppLpid(mLpid, mSeq) IN
        /\ mAppLpid' = v
        /\ IF v = mLpid
           THEN /\ MainLogs(<<>>, << Event("LOAD_CONFIG_SUCCESS", "INFO") >>)
                /\ UNCHANGED <<mSeq, mMinted>>
           ELSE /\ MainLogs(<<"generate_lpid">>,
                            << Event("LOAD_CONFIG_SUCCESS", "INFO") >>)
                /\ mSeq' = mSeq + 1
                /\ mMinted' = Append(mMinted, v)
    /\ mpc' = "resolve"
    /\ UNCHANGED <<mArgs, mRegistry, mImpl, mSinkUp, mLpid, mHandler, mBound,
                   mService, mDataTable, mExc, mNotify, mOutcome, mStatus>>
    /\ UNCHANGED <<lpidVars, runVars, fetchVars, transVars, setVars>>

\* get_service_instance, up to the call of the constructor: the service
\* file, the module, the class; instantiating a class that leaves a method
\* abstract raises TypeError before __init__ runs
MainResolve ==
    /\ mpc = "resolve"
    /\ LET type == ResolveRaises(mImpl)
           found == IF mImpl = "nofile" THEN <<>>
                    ELSE << Event("LOAD_CONFIG_SUCCESS", "INFO"),
                            Event("LOAD_CONFIG_SUCCESS", "INFO") >>
       IN IF type = "none"
          THEN /\ MainLogs(<<>>, found)
               /\ mpc' = "construct"
               /\ UNCHANGED mExc
          ELSE /\ MainLogs(<<>>, found \o SurfacedEvents(type))
               /\ MainRaises(SurfacedAs(type), type, "resolve")
    /\ UNCHANGED <<mArgs, mRegistry, mImpl, mSinkUp, mSeq, mMinted, mLpid,
                   mHandler, mAppLpid, mBound, mService, mDataTable, mNotify,
                   mOutcome, mStatus>>
    /\ UNCHANGED <<lpidVars, runVars, fetchVars, transVars, setVars>>

\* WBService.__init__: the classes are set, _init_repos, _init_dtos
MainConstruct ==
    /\ mpc = "construct"
    /\ mBound' = Capabilities \ {"fetch_client"}
    /\ MainLogs(<<>>, << Event("INIT_SUCCESS", "INFO"),
                         Event("INIT_SUCCESS", "INFO") >>)
    /\ mpc' = "init_client"
    /\ UNCHANGED <<mArgs, mRegistry, mImpl, mSinkUp, mSeq, mMinted, mLpid,
                   mHandler, mAppLpid, mService, mDataTable, mExc, mNotify,
                   mOutcome, mStatus>>
    /\ UNCHANGED <<lpidVars, runVars, fetchVars, transVars, setVars>>

\* WBService.__init__: _init_api_client reads the settings row and builds
\* the client; the constructor returns and get_service_instance returns the
\* service, or the client cannot be built and the exception leaves both
MainInitClient ==
    /\ mpc = "init_client"
    /\ \E out \in {"ok", "TypeError", "ValueError"} :
          IF out = "ok"
          THEN /\ mBound' = mBound \cup {"fetch_client"}
               /\ mService' = ResolveResult(mBound \cup {"fetch_client"},
                                            TRUE, mAppLpid)
               /\ MainLogs(<<"settings">>,
                           << Event("LOAD_CONFIG_SUCCESS", "INFO"),
                              Event("INIT_SUCCESS", "INFO") >>)
               /\ mpc' = "run"
               /\ UNCHANGED mExc
          ELSE /\ mService' = ResolveResult(mBound, FALSE, mAppLpid)
               /\ MainLogs(<<"settings">>,
                           << Event("LOAD_CONFIG_SUCCESS", "INFO") >>
                           \o SurfacedEvents(out))
               /\ MainRaises(SurfacedAs(out), out, "construct")
               /\ UNCHANGED mBound
    /\ UNCHANGED <<mArgs, mRegistry, mImpl, mSinkUp, mSeq, mMinted, mLpid,
                   mHandler, mAppLpid, mDataTable, mNotify, mOutcome,
                   mStatus>>
    /\ UNCHANGED <<lpidVars, runVars, fetchVars, transVars, setVars>>

\* service.run(): fetch_data
MainRunFetch ==
    /\ mpc = "run"
    /\ \E ok \in BOOLEAN :
          IF ok
          THEN /\ MainLogs(<<"http">>,
                           << Event("LOAD_CONFIG_SUCCESS", "INFO"),
                              Event("EXTRACT_DATA_SUCCESS", "INFO") >>)
               /\ mpc' = "process"
               /\ UNCHANGED mExc
          ELSE /\ MainLogs(<<"http">>,
                           << Event("LOAD_CONFIG_SUCCESS", "INFO"),
                              Event("API_ERROR", "ERROR"),
                              Event("EXCEPTION", "ERROR") >>)
               /\ MainRaises(RaisedAs(mArgs.scenario, "HTTPError"),
                             "HTTPError", "fetch")
    /\ UNCHANGED <<mArgs, mRegistry, mImpl, mSinkUp, mSeq, mMinted, mLpid,
                   mHandler, mAppLpid, mBound, mService, mDataTable, mNotify,
                   mOutcome, mStatus>>
    /\ UNCHANGED <<lpidVars, runVars, fetchVars, transVars, setVars>>

\* service.run(): process_data
MainRunProcess ==
    /\ mpc = "process"
    /\ \E ok \in BOOLEAN :
          IF ok
          THEN /\ MainLogs(<<>>, << Event("TRANSFORM_DATA_SUCCESS", "INFO") >>)
               /\ mpc' = "insert"
               /\ UNCHANGED mExc
          ELSE /\ MainLogs(<<>>, << Event("VALIDATE_DATA_ERROR", "ERROR"),
                                    Event("TRANSFORM_DATA_ERROR", "ERROR"),
                                    Event("EXCEPTION", "ERROR") >>)
               /\ MainRaises("DataProcessingError", "CustomValidationError",
                             "process")
    /\ UNCHANGED <<mArgs, mRegistry, mImpl, mSinkUp, mSeq, mMinted, mLpid,
                   mHandler, mAppLpid, mBound, mService, mDataTable, mNotify,
                   mOutcome, mStatus>>
    /\ UNCHANGED <<lpidVars, runVars, fetchVars, transVars, setVars>>

\* service.run(): insert(data, lpid=self.lpid, ...)
MainRunInsert ==
    /\ mpc = "insert"
    /\ \E ok \in BOOLEAN :
          IF ok
          THEN /\ mDataTable' = mDataTable \o << [lpid |-> mService.lpid],
                                                 [lpid |-> mService.lpid] >>
               /\ MainLogs(<<"insert">>,
                           << Event("INSERT_DATA_SUCCESS", "INFO") >>)
               /\ mpc' = "finish"
               /\ UNCHANGED mExc
          ELSE /\ MainLogs(<<"insert">>, << Event("DB_ERROR", "ERROR"),
                                            Event("EXCEPTION", "ERROR") >>)
               /\ MainRaises("DatabaseError", "DatabaseError", "insert")
               /\ UNCHANGED mDataTable
    /\ UNCHANGED <<mArgs, mRegistry, mImpl, mSinkUp, mSeq, mMinted, mLpid,
                   mHandler, mAppLpid, mBound, mService, mNotify, mOutcome,
                   mStatus>>
    /\ UNCHANGED <<lpidVars, runVars, fetchVars, transVars, setVars>>

\* logger.info(APP_FINISHED); return 0
MainFinish ==
    /\ mpc = "finish"
    /\ MainLogs(<<>>, << Event("APP_FINISHED", "INFO") >>)
    /\ mStatus' = ExitStatusOfReturn(0)
    /\ mOutcome' = "succeeded"
    /\ mpc' = "exited"
    /\ UNCHANGED <<mArgs, mRegistry, mImpl, mSinkUp, mSeq, mMinted, mLpid,
                   mHandler, mAppLpid, mBound, mService, mDataTable, mExc,
                   mNotify>>
    /\ UNCHANGED <<lpidVars, runVars, fetchVars, transVars, setVars>>

\* except Exception: logger.error(APP_FINISHED)
MainExcept ==
    /\ mpc = "except"
    /\ MainLogs(<<>>, << Event("APP_FINISHED", "ERROR") >>)
    /\ mpc' = "notify"
    /\ UNCHANGED <<mArgs, mRegistry, mImpl, mSinkUp, mSeq, mMinted, mLpid,
                   mHandler, mAppLpid, mBound, mService, mDataTable, mExc,
                   mNotify, mOutcome, mStatus>>
    /\ UNCHANGED <<lpidVars, runVars, fetchVars, transVars, setVars>>

\* the notification of the bot, then sys.exit(1); an exception of the
\* notification other than the sender's leaves main and ends the process
\* with status 1
MainNotify ==
    /\ mpc = "notify"
    /\ IF NotifyEnabled(mArgs.bot)
       THEN \E out \in NotifyOutcomes : mNotify' = out
       ELSE mNotify' = "off"
    /\ mStatus' = ExitStatusOfExit(1)
    /\ mOutcome' = "failed"
    /\ mpc' = "exited"
    /\ UNCHANGED <<mArgs, mRegistry, mImpl, mSinkUp, mSeq, mMinted, mLpid,
                   mHandler, mAppLpid, mBound, mService, mCalls, mLogTable,
                   mDiag, mEmitted, mDataTable, mExc>>
    /\ UNCHANGED <<lpidVars, runVars, fetchVars, transVars, setVars>>

\* the store stops accepting the rows of the log sink
SinkGoesDown ==
    /\ mpc \notin {"off", "exited"}
    /\ mSinkUp
    /\ mSinkUp' = FALSE
    /\ UNCHANGED <<mpc, mArgs, mRegistry, mImpl, mSeq, mMinted, mLpid,
                   mHandler, mAppLpid, mBound, mService, mCalls, mLogTable,
                   mDiag, mEmitted, mDataTable, mExc, mNotify, mOutcome,
                   mStatus>>
    /\ UNCHANGED <<lpidVars, runVars, fetchVars, transVars, setVars>>

NextMain ==
    \/ MainParse
    \/ MainGenerateLpid
    \/ MainSetupLogging
    \/ MainLogStart
    \/ MainLookup
    \/ MainWBApp
    \/ MainResolve
    \/ MainConstruct
    \/ MainInitClient
    \/ MainRunFetch
    \/ MainRunProcess
    \/ MainRunInsert
    \/ MainFinish
    \/ MainExcept
    \/ MainNotify
    \/ SinkGoesDown

(***************************************************************************)
(* Part II : actions                                                       *)
(***************************************************************************)
NoExc == [type |-> "none", stage |-> "none"]

RunIdleState ==
    /\ rpc = "off"
    /\ runArgs = [lpid |-> 1, is_test_data |-> FALSE,
                  collection_start_dttm |-> <<"client", 0>>]
    /\ sinkOk = TRUE
    /\ reqNo = 0
    /\ offset = 0
    /\ all_products = <<>>
    /\ served = <<>>
    /\ processed_data = <<>>
    /\ collection_end = None
    /\ params = <<>>
    /\ rowIdx = 0
    /\ db = NewConnection
    /\ emitted = <<>>
    /\ exc = NoExc
    /\ dbClock = 0
    /\ nowReadLog = <<>>
    /\ old_timeout = DbQueryTimeout

\* the state in which WBService.run is called: main has issued the lpid and
\* taken collection_start_dttm from the client clock
RunInitState ==
    /\ rpc = "run"
    /\ \E l \in 1..2, t \in BOOLEAN :
          runArgs = [lpid |-> l, is_test_data |-> t,
                     collection_start_dttm |-> <<"client", 0>>]
    /\ sinkOk \in BOOLEAN
    /\ reqNo = 0
    /\ offset = 0
    /\ all_products = <<>>
    /\ served = <<>>
    /\ processed_data = <<>>
    /\ collection_end = None
    /\ params = <<>>
    /\ rowIdx = 0
    /\ db = NewConnection
    /\ emitted = <<>>
    /\ exc = NoExc
    /\ dbClock = 0
    /\ nowReadLog = <<>>
    /\ old_timeout = DbQueryTimeout

InitLpid ==
    /\ LpidInitState
    /\ RunIdleState /\ FetchIdleState /\ TransIdleState /\ SetIdleState
    /\ MainIdleState

InitRun ==
    /\ LpidInitState
    /\ RunInitState /\ FetchIdleState /\ TransIdleState /\ SetIdleState
    /\ MainIdleState

InitFetch ==
    /\ LpidInitState
    /\ RunIdleState /\ FetchInitState /\ TransIdleState /\ SetIdleState
    /\ MainIdleState

InitProcess ==
    /\ LpidInitState
    /\ RunIdleState /\ FetchIdleState /\ TransInitState /\ SetIdleState
    /\ MainIdleState

InitSettings ==
    /\ LpidInitState
    /\ RunIdleState /\ FetchIdleState /\ TransIdleState /\ SetInitState
    /\ MainIdleState

InitMain ==
    /\ LpidInitState
    /\ RunIdleState /\ FetchIdleState /\ TransIdleState /\ SetIdleState
    /\ MainInitState

St == [db |-> db, emitted |-> emitted]

\* WBService.run: the except clause of run logs EXCEPTION and re-raises
RunFails(st, type, stage) ==
    LET st2 == Emit(st, Event("EXCEPTION", "ERROR"), sinkOk) IN
    /\ db' = st2.db
    /\ emitted' = st2.emitted
    /\ exc' = [type |-> type, stage |-> stage]
    /\ rpc' = "failed"

\* WBService.run, up to the call of fetch_data
RunStart ==
    /\ rpc = "run"
    /\ LET st2 == Emit(St, Event("LOAD_CONFIG_SUCCESS", "INFO"), sinkOk) IN
        /\ db' = st2.db
        /\ emitted' = st2.emitted
    /\ rpc' = "fetch"
    /\ UNCHANGED <<runArgs, sinkOk, reqNo, offset, all_products, served,
                   processed_data, collection_end, params, rowIdx, exc,
                   dbClock, nowReadLog>>
    /\ UNCHANGED old_timeout
    /\ UNCHANGED nonRunVars

\* one turn of the loop of WB24APIClient.fetch_data whose request is
\* answered with a page of n records (n = 0: an empty page)
FetchPage ==
    /\ rpc = "fetch"
    /\ reqNo < MaxPages
    /\ \E n \in 0..Limit, bad \in 0..Limit :
        /\ bad <= n
        /\ (reqNo + 1 = MaxPages) => n < Limit
        /\ LET products == [i \in 1..n |->
                              RawRecord(Len(served) + i, i # bad)]
               all == ExtendProducts(all_products, products)
           IN
           /\ reqNo' = reqNo + 1
           /\ served' = served \o products
           /\ IF products = <<>>
              THEN /\ RunFails(
                        EmitAll(St, << Event("EXTRACT_DATA_ERROR", "ERROR"),
                                       Event("UNKNOWN_ERROR", "ERROR") >>,
                                sinkOk),
                        "APIRequestException", "fetch")
                   /\ UNCHANGED <<offset, all_products>>
              ELSE IF IsLastBatch(products)
              THEN /\ LET st2 == EmitAll(St,
                                   << Event("EXTRACT_DATA_SUCCESS", "INFO"),
                                      Event("EXTRACT_DATA_SUCCESS", "INFO") >>,
                                   sinkOk) IN
                        /\ db' = st2.db
                        /\ emitted' = st2.emitted
                   /\ all_products' = all
                   /\ rpc' = "process"
                   /\ UNCHANGED <<offset, exc>>
              ELSE /\ LET st2 == Emit(St,
                                   Event("EXTRACT_DATA_SUCCESS", "INFO"),
                                   sinkOk) IN
                        /\ db' = st2.db
                        /\ emitted' = st2.emitted
                   /\ all_products' = all
                   /\ offset' = offset + Len(products)
                   /\ UNCHANGED <<rpc, exc>>
    /\ UNCHANGED <<runArgs, sinkOk, processed_data, collection_end, params,
                   rowIdx, dbClock, nowReadLog>>
    /\ UNCHANGED old_timeout
    /\ UNCHANGED nonRunVars

\* the request fails for good (requests.exceptions.RequestException)
FetchHttpError ==
    /\ rpc = "fetch"
    /\ reqNo < MaxPages
    /\ reqNo' = reqNo + 1
    /\ RunFails(Emit(St, Event("API_ERROR", "ERROR"), sinkOk),
                "APIRequestException", "fetch")
    /\ UNCHANGED <<runArgs, sinkOk, offset, all_products, served,
                   processed_data, collection_end, params, rowIdx, dbClock,
                   nowReadLog>>
    /\ UNCHANGED old_timeout
    /\ UNCHANGED nonRunVars

\* WBDataTransformer.process_data(raw_data)
ProcessData ==
    /\ rpc = "process"
    /\ LET k == FirstInvalid(all_products, 1) IN
        IF k > 0
        THEN /\ RunFails(
                  EmitAll(St, << Event("VALIDATE_DATA_ERROR", "ERROR"),
                                 Event("TRANSFORM_DATA_ERROR", "ERROR") >>,
                          sinkOk),
                  "DataProcessingError", "process")
             /\ UNCHANGED processed_data
        ELSE IF all_products = <<>>
        THEN /\ RunFails(
                  Emit(St, Event("INSERT_DATA_ERROR", "WARNING"), sinkOk),
                  "DataProcessingError", "process")
             /\ UNCHANGED processed_data
        ELSE /\ processed_data' = ProcessAll(all_products)
             /\ LET st2 == Emit(St, Event("TRANSFORM_DATA_SUCCESS", "INFO"),
                                sinkOk) IN
                  /\ db' = st2.db
                  /\ emitted' = st2.emitted
             /\ rpc' = "insert"
             /\ UNCHANGED exc
    /\ UNCHANGED <<runArgs, sinkOk, reqNo, offset, all_products, served,
                   collection_end, params, rowIdx, dbClock, nowReadLog>>
    /\ UNCHANGED old_timeout
    /\ UNCHANGED nonRunVars

\* with_query_timeout saves conn.timeout and sets the override; then
\* WB24Repository.insert: with self.connection as conn; conn.autocommit = False
InsertBegin ==
    /\ rpc = "insert"
    /\ old_timeout' = db.timeout
    /\ db' = SetAutocommit(SetTimeout(db, InsertTimeout),
                            AutocommitDuringInsert)
    /\ rpc' = "ins_now"
    /\ UNCHANGED <<runArgs, sinkOk, reqNo, offset, all_products, served,
                   processed_data, collection_end, params, rowIdx, emitted,
                   exc, dbClock, nowReadLog>>
    /\ UNCHANGED nonRunVars

\* SELECT CAST(SYSUTCDATETIME() AS datetime2(3)); params = [...]
InsertReadNow ==
    /\ rpc = "ins_now"
    /\ collection_end' = <<"store", dbClock>>
    /\ nowReadLog' = Append(nowReadLog,
                            [clock |-> dbClock,
                             autocommit |-> db.autocommit,
                             rowsWritten |-> Len(db.table) + Len(db.txRows)])
    /\ params' = BuildParams(processed_data, runArgs.lpid,
                             runArgs.is_test_data,
                             runArgs.collection_start_dttm,
                             <<"store", dbClock>>)
    /\ rowIdx' = 0
    /\ rpc' = "ins_rows"
    /\ UNCHANGED <<runArgs, sinkOk, reqNo, offset, all_products, served,
                   processed_data, db, emitted, exc, dbClock>>
    /\ UNCHANGED old_timeout
    /\ UNCHANGED nonRunVars

\* cursor.executemany: the INSERT of the next parameter row succeeds
InsertRowOk ==
    /\ rpc = "ins_rows"
    /\ rowIdx < Len(params)
    /\ db' = ExecInsertRow(db, params[rowIdx + 1])
    /\ rowIdx' = rowIdx + 1
    /\ UNCHANGED <<rpc, runArgs, sinkOk, reqNo, offset, all_products, served,
                   processed_data, collection_end, params, emitted, exc,
                   dbClock, nowReadLog>>
    /\ UNCHANGED old_timeout
    /\ UNCHANGED nonRunVars

\* pyodbc.DatabaseError (IntegrityError, DataError, ...) or another exception
\* (pyodbc.Error, InterfaceError)
ErrorKinds == {"DatabaseError", "Error"}

\* an exception leaves the with block of insert: Connection.__exit__, then
\* the except clause that matches, then finally, then the except clause of
\* WBService.run
InsertRaises_LogFirst(kind) ==
    LET st1 == Emit([db |-> db, emitted |-> emitted],
                    Event(IF kind = "DatabaseError" THEN "DB_ERROR"
                          ELSE "UNEXPECTED_ERROR", "ERROR"), sinkOk)
        st2 == [st1 EXCEPT !.db = RestoreTimeout(
                                     SetAutocommit(ConnExit(@, TRUE), TRUE),
                                     old_timeout)]
    IN RunFails(st2, kind, "insert")

InsertRaises(kind) ==
    LET d1  == ConnExit(db, TRUE)
        st1 == IF kind = "DatabaseError"
               THEN Emit([db |-> Rollback(d1), emitted |-> emitted],
                         Event("DB_ERROR", "ERROR"), sinkOk)
               ELSE Emit([db |-> d1, emitted |-> emitted],
                         Event("UNEXPECTED_ERROR", "ERROR"), sinkOk)
        st2 == [st1 EXCEPT !.db = RestoreTimeout(SetAutocommit(@, TRUE),
                                                 old_timeout)]
    IN RunFails(st2, kind, "insert")

\* cursor.executemany: the INSERT of the next parameter row raises
InsertRowFails ==
    /\ rpc = "ins_rows"
    /\ rowIdx < Len(params)
    /\ \E kind \in ErrorKinds : InsertRaises(kind)
    /\ UNCHANGED <<runArgs, sinkOk, reqNo, offset, all_products, served,
                   processed_data, collection_end, params, rowIdx, dbClock,
                   nowReadLog>>
    /\ UNCHANGED old_timeout
    /\ UNCHANGED nonRunVars

\* conn.commit()
InsertCommit ==
    /\ rpc = "ins_rows"
    /\ rowIdx = Len(params)
    /\ db' = Commit(db)
    /\ rpc' = "ins_committed"
    /\ UNCHANGED <<runArgs, sinkOk, reqNo, offset, all_products, served,
                   processed_data, collection_end, params, rowIdx, emitted,
                   exc, dbClock, nowReadLog>>
    /\ UNCHANGED old_timeout
    /\ UNCHANGED nonRunVars

\* conn.commit() raises: the store has not committed the transaction
InsertCommitFails_LoggedSuccess ==
    /\ rpc = "ins_rows"
    /\ rowIdx = Len(params)
    /\ \E kind \in ErrorKinds :
          LET s0  == Emit(St, Event("INSERT_DATA_SUCCESS", "INFO"), sinkOk)
              st1 == Emit([db |-> ConnExit(s0.db, TRUE),
                           emitted |-> s0.emitted],
                          Event(IF kind = "DatabaseError" THEN "DB_ERROR"
                                ELSE "UNEXPECTED_ERROR", "ERROR"), sinkOk)
              st2 == [st1 EXCEPT !.db = RestoreTimeout(
                                           SetAutocommit(@, TRUE),
                                           old_timeout)]
          IN RunFails(st2, kind, "insert")
    /\ UNCHANGED <<runArgs, sinkOk, reqNo, offset, all_products, served,
                   processed_data, collection_end, params, rowIdx, dbClock,
                   nowReadLog>>
    /\ UNCHANGED old_timeout
    /\ UNCHANGED nonRunVars

InsertCommitFails ==
    /\ rpc = "ins_rows"
    /\ rowIdx = Len(params)
    /\ \E kind \in ErrorKinds : InsertRaises(kind)
    /\ UNCHANGED <<runArgs, sinkOk, reqNo, offset, all_products, served,
                   processed_data, collection_end, params, rowIdx, dbClock,
                   nowReadLog>>
    /\ UNCHANGED old_timeout
    /\ UNCHANGED nonRunVars

\* logger.info(INSERT_DATA_SUCCESS); the with block ends; finally:
\* conn.autocommit = True; insert and run return
InsertFinish ==
    /\ rpc = "ins_committed"
    /\ LET st1 == Emit(St, Event("INSERT_DATA_SUCCESS", "INFO"), sinkOk)
           d2  == RestoreTimeout(
                      SetAutocommit(ConnExit(st1.db, FALSE), TRUE),
                      old_timeout)
       IN /\ db' = d2
          /\ emitted' = st1.emitted
    /\ rpc' = "done"
    /\ UNCHANGED <<runArgs, sinkOk, reqNo, offset, all_products, served,
                   processed_data, collection_end, params, rowIdx, exc,
                   dbClock, nowReadLog>>
    /\ UNCHANGED old_timeout
    /\ UNCHANGED nonRunVars

\* the clock of the store advances while insert runs
StoreClockTick ==
    /\ rpc \in {"insert", "ins_now", "ins_rows", "ins_committed"}
    /\ dbClock < MaxClock
    /\ dbClock' = dbClock + 1
    /\ UNCHANGED <<rpc, runArgs, sinkOk, reqNo, offset, all_products, served,
                   processed_data, collection_end, params, rowIdx, db,
                   emitted, exc, nowReadLog>>
    /\ UNCHANGED old_timeout
    /\ UNCHANGED nonRunVars

NextRun ==
    \/ RunStart
    \/ FetchPage
    \/ FetchHttpError
    \/ ProcessData
    \/ InsertBegin
    \/ InsertReadNow
    \/ InsertRowOk
    \/ InsertRowFails
    \/ InsertCommit
    \/ InsertCommitFails
    \/ InsertFinish
    \/ StoreClockTick

SpecRun == InitRun /\ [][NextRun]_vars

SpecFetch == InitFetch /\ [][NextFetch]_vars

\* fetch_data is sequential code and the remote answers every request it is
\* sent: a step of the fetch that can be taken is eventually taken
FairSpecFetch == SpecFetch /\ WF_vars(NextFetch)

SpecProcess == InitProcess /\ [][NextProcess]_vars

SpecSettings == InitSettings /\ [][NextSettings]_vars

SpecMain == InitMain /\ [][NextMain]_vars

(***************************************************************************)
(* Part I : next-state relation                                            *)
(***************************************************************************)
\* the statements of the batch as the store executes them
ServerStep(p) ==
    \/ CheckSequence(p)
    \/ CreateSequenceStep(p)
    \/ CatalogLockTimeout(p)
    \/ GetAppLock(p)
    \/ CheckLockResult(p)
    \/ DrawNextValue(p)
    \/ ReleaseAppLock(p)
    \/ ReturnLpid(p)

\* failures the store may inflict on a statement
ServerFault(p) ==
    \/ GetAppLockCanceled(p)
    \/ DrawFails(p)

NextLpid ==
    \/ \E p \in Procs : CallGenerateLpid(p)
    \/ \E p \in Procs : ServerStep(p)
    \/ \E p \in Procs : ServerFault(p)
    \/ \E p \in Procs : SchemaCheckCommits(p)
    \/ \E p \in Procs : SchemaCheckRollsBack(p)
    \/ \E p \in Procs : ProcessExit(p)
    \/ ExternalAcquire
    \/ ExternalRelease

SpecLpid == InitLpid /\ [][NextLpid]_vars

\* every statement of a running batch is eventually executed: the store runs
\* the batch of each session to its end and ends a wait on a lock when its
\* timeout is over.  Nothing forces a fault, nor the external holder to
\* release, nor a process to start, to go on after the call or to exit.
FairSpecLpid == SpecLpid /\ \A p \in Procs : WF_vars(ServerStep(p))

(***************************************************************************)
(* Claims about generate_lpid                                              *)
(***************************************************************************)

C2_LockProtectsDraw ==
    /\ Cardinality(held) <= 1
    /\ \A i \in 1..Len(drawLog) : drawLog[i].holders = {drawLog[i].proc}
    /\ \A p \in Procs : pc[p] = "draw" => p \in held
    /\ \A p \in Procs :
          pc[p] \in {"select", "returned", "done"} => p \notin held

\* a process has drawn under the lock while another one is blocked on it
C2_Witness ==
    \E p, q \in Procs :
        /\ p # q
        /\ pc[p] = "release" /\ p \in held
        /\ pc[q] = "lock" /\ waited[q] > 0

\* C3: the existence check and the create-if-absent of the sequence run
\* inside the critical section: a process that is at the check or at the
\* create holds the lock, so no two processes are at the check-then-create
\* step at the same time.
C3_CheckCreateInsideLock ==
    /\ \A p \in Procs : pc[p] \in {"check", "create"} => p \in held
    /\ \A p, q \in Procs :
          (p # q /\ pc[p] = "create") => pc[q] # "create"

C5_Classified(code, msg) ==
    \A p \in Procs :
        (pc[p] = "raised" /\ lockResult[p] = code) => outcome[p].msg = msg

C5_LockFailureRaises ==
    /\ \A p \in Procs :
          lockResult[p] < 0 =>
              /\ pc[p] \in {"lockcheck", "raised"}
              /\ nextLpid[p] = NoValue
              /\ p \notin held
              /\ outcome[p].kind \in {"none", "RuntimeError"}
              /\ outcome[p].value = NoValue
              /\ pc[p] = "raised" => outcome[p].kind = "RuntimeError"
    /\ C5_Classified(-1, <<"Lock timeout expired">>)
    /\ C5_Classified(-2, <<"Canceled (deadlock)">>)
    /\ C5_Classified(-3, <<"Canceled (error)">>)
    /\ C5_Classified(-999, <<"Failed to acquire lock (code: ", -999, ")">>)

\* the lock stayed with another holder for the whole timeout and the call
\* has raised
C5_Witness ==
    \E p \in Procs :
        /\ pc[p] = "raised"
        /\ lockResult[p] = -1
        /\ held # {}
        /\ p \notin held

\* C6: every call of generate_lpid ends, returning or raising, also when
\* the holder of the lock never releases it.
C6_CallTerminates ==
    \A p \in Procs : InBatch(p) ~> (pc[p] \in {"returned", "raised"})

\* a call has ended with the timeout while the external holder still has
\* the lock
C6_Witness ==
    \E p \in Procs :
        /\ pc[p] = "raised"
        /\ lockResult[p] = -1
        /\ ExternalHolder \in held

(***************************************************************************)
(* Claims about WB24Repository.insert and WBService.run                    *)
(***************************************************************************)
InsertRaised == rpc = "failed" /\ exc.stage = "insert"

C8_OneSnapshotTimestamp ==
    /\ Len(nowReadLog) <= 1
    /\ (rpc \in {"ins_rows", "ins_committed", "done"} \/ rowIdx > 0) =>
          /\ Len(nowReadLog) = 1
          /\ nowReadLog[1].autocommit = FALSE
          /\ nowReadLog[1].rowsWritten = 0
          /\ collection_end = <<"store", nowReadLog[1].clock>>
    /\ \A r \in {db.table[i] : i \in 1..Len(db.table)}
              \cup {db.txRows[i] : i \in 1..Len(db.txRows)} :
          SubSeq(r, 1, 4) = << runArgs.lpid, runArgs.is_test_data,
                               runArgs.collection_start_dttm, collection_end >>

\* a batch of two or more rows is committed and the clock of the store has
\* moved on since it was read
C8_Witness ==
    /\ rpc = "done"
    /\ Len(db.table) >= 2
    /\ dbClock > nowReadLog[1].clock

\* C9: a run whose pages are all non-empty, whose last page is shorter than
\* the limit and whose records are all valid commits exactly one transaction
\* with one row per fetched record, in fetch order, all rows with the same
\* lpid and the same collection end.
C9_OneTransactionOneRowPerRecord ==
    rpc = "done" =>
        /\ db.dataCommits = 1
        /\ Len(db.table) = Len(served)
        /\ \A i \in 1..Len(db.table) :
              /\ i <= Len(served)
              /\ db.table[i] =
                    << runArgs.lpid, runArgs.is_test_data,
                       runArgs.collection_start_dttm, collection_end >>
                    \o CleanData(ModelDump(served[i]))
        /\ \A i, j \in 1..Len(db.table) :
              db.table[i][1] = db.table[j][1] /\ db.table[i][4] = db.table[j][4]

\* two pages, a full one and then one record, all rows committed
C9_Witness ==
    /\ rpc = "done"
    /\ reqNo = 2
    /\ Len(served) = Limit + 1
    /\ Len(db.table) = Limit + 1

\* C10: when the insertion of a row fails the batch is rolled back, no row
\* is visible, no insert-succeeded event is recorded and the data-write
\* event recorded for the run is an insert-failed event.
C10_InsertFailedEventOnly ==
    InsertRaised =>
        /\ db.table = <<>>
        /\ "INSERT_DATA_SUCCESS" \notin Codes(emitted)
        /\ "INSERT_DATA_ERROR" \in Codes(emitted)

(***************************************************************************)
(* Claims on fetch_data (SpecFetch)                                        *)
(***************************************************************************)
\* the last card of page k of the answers
LastCard(k) == fPages[k].cards[Len(fPages[k].cards)]

\* page k of the answers is shorter than limit
ShortPage(k) == Len(fPages[k].cards) < Limit

\* the answer that carried page k reports a cursor.total smaller than the
\* number of its cards
TotalBelowCards(k) ==
    fPages[k].total # NoTotal /\ fPages[k].total < Len(fPages[k].cards)

\* the first payload has a null cursor, every later one the updatedAt and
\* nmID of the last card of the page before it
CursorCarried ==
    \A k \in 1..Len(fReqLog) :
        IF k = 1
        THEN fReqLog[k].updatedAt = NoneV /\ fReqLog[k].nmID = NoneV
        ELSE /\ fReqLog[k].updatedAt = LastCard(k - 1).updatedAt
             /\ fReqLog[k].nmID = LastCard(k - 1).nmID

FetchReturned == fpc \in {"returned", "processing"}

FetchFailed == fpc \in {"raised", "run_failed"}

LacksCursorField(k) ==
    /\ fPages[k].cards # <<>>
    /\ LastCard(k).updatedAt = NoneV \/ LastCard(k).nmID = NoneV

\* fetch_data has raised on page k and issued no request after it
RaisedOnPage(k) ==
    /\ k = Len(fPages)
    /\ Len(fReqLog) = k
    /\ FetchFailed
    /\ fExc # NoFetchExc
    /\ fPassed = NotPassed

\* C12 as stated: every page whose last card lacks updatedAt or nmID,
\* whatever its length, makes WB17APIClient.fetch_data raise, and no further
\* request is issued.
C12_MissingCursorAlwaysRaises ==
    fClient = "wb17" =>
        \A k \in 1..Len(fPages) : LacksCursorField(k) => RaisedOnPage(k)

\* C12 amended: a page whose last card lacks updatedAt or nmID and that is
\* not the last batch (it has limit cards and no cursor.total below that)
\* makes WB17APIClient.fetch_data raise, and no further request is issued; a
\* last batch lacking them ends the fetch normally.
C12_MissingCursorRaisesUnlessLastBatch ==
    fClient = "wb17" =>
        \A k \in 1..Len(fPages) :
            LacksCursorField(k) =>
                IF ShortPage(k) \/ TotalBelowCards(k)
                THEN k = Len(fPages) /\ FetchReturned /\ fExc = NoFetchExc
                ELSE RaisedOnPage(k)

\* the second page is full, has no total, and its last card lacks nmID only
C12_Witness ==
    /\ fClient = "wb17"
    /\ fpc = "raised"
    /\ Len(fPages) = 2
    /\ ~ShortPage(2) /\ ~TotalBelowCards(2)
    /\ LastCard(2).nmID = NoneV /\ LastCard(2).updatedAt # NoneV
    /\ Len(fReqLog) = 2

\* the records of the first n pages
RecordsBefore(n) == Len(Concat(SubSeq(fPages, 1, n)))

\* C13: request k of WB24APIClient.fetch_data carries the initial offset
\* plus the number of records of the pages before it, the requests end with
\* the first page shorter than limit, and the result is the concatenation in
\* order of the pages.
C13_OffsetPagination ==
    fClient = "wb24" =>
        /\ \A k \in 1..Len(fReqLog) :
              /\ fReqLog[k].offset = fInitOffset + RecordsBefore(k - 1)
              /\ fReqLog[k].limit = Limit
        /\ \A k \in 1..(Len(fPages) - 1) : ~ShortPage(k)
        /\ FetchReturned =>
              /\ ShortPage(Len(fPages))
              /\ Len(fReqLog) = Len(fPages)
              /\ fAll = Concat(fPages)

\* pages of limit, limit and one record from offset 0: three requests
C13_Witness ==
    /\ fClient = "wb24"
    /\ fpc = "returned"
    /\ fInitOffset = 0
    /\ Len(fReqLog) = 3
    /\ fReqLog[3].offset = 2 * Limit
    /\ Len(fAll) = 2 * Limit + 1

\* C14: in both clients a page without records makes fetch_data raise
\* APIRequestException, and no records are returned.
C14_EmptyPageRaisesApiRequestError ==
    \A k \in 1..Len(fPages) :
        fPages[k].cards = <<>> =>
            /\ RaisedOnPage(k)
            /\ fExc.type = "APIRequestException"

\* C15: every request has its own retry budget: it is sent again for up to
\* max_retries answers of the retry set and a page that follows is taken
\* without an error; one answer more and fetch_data raises
\* APIRequestException, in both clients.
C15_RetryPolicy ==
    /\ fpc = "wait" => fAttempt <= fMaxRetries
    /\ fExc.cause = "RetryError" =>
          /\ fAttempt = fMaxRetries + 1
          /\ FetchFailed
          /\ fExc.type = "APIRequestException"
    /\ (fExc = NoFetchExc /\ fpc # "wait") =>
          /\ Len(fPages) = Len(fReqLog)
          /\ fAll = Concat(fPages)

\* C16: once a request of fetch_data has failed (an error status outside
\* the retry set, a cursor that cannot be continued, retries used up) no
\* further request is issued, the exception reaches WBService.run, and
\* nothing is handed to process_data.
C16_FailureEndsFetch ==
    [][ /\ fExc' # NoFetchExc => (fpc' \in {"raised", "run_failed"}
                                  /\ fPassed' = NotPassed)
        /\ fExc # NoFetchExc => (fReqLog' = fReqLog /\ fExc' = fExc
                                 /\ fAll' = fAll) ]_vars

\* the retries of the second request are used up after a full first page
C16_Witness ==
    /\ fpc = "run_failed"
    /\ fExc.cause = "RetryError"
    /\ Len(fReqLog) = 2
    /\ Len(fAll) = Limit
    /\ fPassed = NotPassed

(***************************************************************************)
(* Claims on WBDataTransformer.process_data (SpecProcess)                  *)
(***************************************************************************)
\* C17: when record k is the first of the list to fail validation,
\* process_data raises DataProcessingError with the message of record k's
\* missing field, returns nothing, and goes through no record after k; when
\* every record is valid it returns one tuple per record, tuple i made from
\* record i.
C17_AllOrNothing ==
    LET k == FirstInvalid(tData, 1) IN
    /\ k > 0 =>
          /\ tpc \notin {"returned", "inserting"}
          /\ tIdx <= k
          /\ tInserted = <<>>
          /\ tpc \in {"raised", "run_failed"} =>
                /\ tExc = [type |-> "DataProcessingError",
                           msg |-> ValidationMsg(tData[k])]
                /\ tIdx = k
                /\ Len(tOut) = k - 1
    /\ tpc \in {"returned", "inserting"} =>
          /\ Len(tOut) = Len(tData)
          /\ \A i \in 1..Len(tOut) : tOut[i] = CleanData(ModelDump(tData[i]))

\* three records, the second lacks discount, the third lacks vendorCode
C17_Witness ==
    /\ tpc = "raised"
    /\ Len(tData) = 3
    /\ FirstInvalid(tData, 1) = 2
    /\ ~ModelValidates(tData[3])
    /\ tExc.msg = <<"Field required", "discount">>
    /\ Len(tOut) = 1

\* C18: insert is never handed an empty batch; an empty list of raw records
\* makes process_data raise DataProcessingError.
C18_NoEmptyInsert ==
    /\ \A i \in 1..Len(tInserted) : tInserted[i] # <<>>
    /\ (tData = <<>> /\ tpc # "loop") =>
          /\ tpc \in {"raised", "run_failed"}
          /\ tExc.type = "DataProcessingError"
          /\ tInserted = <<>>

\* process_data has been given an empty list and the run has failed on it
C18_Witness ==
    /\ tData = <<>>
    /\ tpc = "run_failed"
    /\ tExc.type = "DataProcessingError"
    /\ "INSERT_DATA_ERROR" \in {tEvents[i] : i \in 1..Len(tEvents)}

(***************************************************************************)
(* Claims on the fetch settings (SpecSettings)                             *)
(***************************************************************************)
\* retrieve gave no row, or a row that _row_to_dict or the model rejects
NoUsableRow ==
    \/ sDbRow = NoRow
    \/ ~RowConverts(sDbRow)
    \/ ~DictValidates(RowToDict(sDbRow))

\* C19: WBAPISettingsTransformer.process_data always returns a settings
\* dictionary; when there is no row (none stored, or the query failed) or
\* the row fails conversion or validation it returns the defaults of the
\* scenario's model, and the client is built.
C19_SettingsNonFatal ==
    /\ sTable.state # "row" /\ spc # "retrieve" => sDbRow = NoRow
    /\ spc \in {"update", "ready"} =>
          DOMAIN sSettings = ModelFields(sScenario)
    /\ (spc = "update" /\ NoUsableRow) =>
          sSettings = DefaultSettings(sScenario)

\* a row whose EndpointUrl the model rejects has given the defaults
C19_Witness ==
    /\ spc = "update"
    /\ sDbRow # NoRow
    /\ RowConverts(sDbRow)
    /\ sDbRow["EndpointUrl"] = BadV
    /\ sSettings = DefaultSettings(sScenario)

\* C20: for every fetch setting the client uses the scenario argument if
\* one is given, else the value of the settings row if the row has one,
\* else the default.
C20_ArgThenRowThenDefault ==
    spc = "ready" =>
        \A f \in SettingsFields :
            sClient[f] =
                IF f \in DOMAIN sArgs THEN sArgs[f]
                ELSE IF /\ sTable.state = "row"
                        /\ RowUsable(sTable.row)
                        /\ Alias(f) \in DOMAIN sTable.row
                THEN sTable.row[Alias(f)]
                ELSE DefaultV(f)

(***************************************************************************)
(* Claims on error propagation (SpecFetch)                                 *)
(***************************************************************************)
\* C28 as stated: a fatal error of a component is logged where it is
\* detected and reaches the caller of the component as the same error; for
\* fetch_data, the exception that leaves it is the one the request raised
\* and an event has been logged for it.
C28_ErrorReachesCallerUnchanged ==
    fExc # NoFetchExc =>
        /\ fExc.type = fExc.cause
        /\ fEvents # <<>>

(***************************************************************************)
(* Claims on the log sink and the batch insert (SpecRun)                   *)
(***************************************************************************)
\* the field of WB24ReportModel that is stored in column col
FieldOfColumn(col) ==
    CHOOSE f \in DOMAIN ModelDump(RawRecord(1, TRUE)) : ReportAlias(f) = col

\* the value the store is to receive in column col for the validated record
\* rec of this run: the four values of the run, then the fields of the model,
\* sizes as its JSON text
ColumnValue(rec, col) ==
    CASE col = "Lpid" -> runArgs.lpid
      [] col = "IsTestData" -> runArgs.is_test_data
      [] col = "CollectionStartDttm" -> runArgs.collection_start_dttm
      [] col = "CollectionEndDttm" -> collection_end
      [] col = "Sizes" -> ToJsonString(rec["sizes"])
      [] OTHER -> rec[FieldOfColumn(col)]

\* insert has built its parameter rows
ParamsBuilt == rpc \in {"ins_rows", "ins_committed", "done"}

\* C29: the log rows and the data batch are persisted independently: every
\* event handed to a working sink is committed at once and stays committed
\* whatever happens to the batch afterwards (a rollback included), a step
\* that emits an event, persisted or not, leaves the committed data rows as
\* they were, and a run that completes has committed its whole batch whether
\* or not its events could be persisted.
C29_EventsAndBatchIndependent ==
    [][ /\ Len(db'.logTable) >= Len(db.logTable)
        /\ SubSeq(db'.logTable, 1, Len(db.logTable)) = db.logTable
        /\ sinkOk => Len(db'.logTable) = Len(emitted')
        /\ ~sinkOk => db'.logTable = <<>>
        /\ emitted' # emitted => db'.table = db.table
        /\ rpc' = "done" => Len(db'.table) = Len(processed_data') ]_vars

\* no event of the run could be persisted, and the batch is committed
C29_Witness ==
    /\ rpc = "done"
    /\ ~sinkOk
    /\ Len(emitted) >= 2
    /\ db.logTable = <<>>
    /\ Len(db.table) >= 2

FailureEvents ==
    {i \in 1..Len(mEmitted) : mEmitted[i].level = "ERROR"}

\* get_service_instance has returned to main
Resolved == mpc \in {"run", "process", "insert", "finish"}

\* C21 as stated: every failure to resolve the scenario (no service.py, no
\* class <NAME>Service, a class that is no WBService) reaches main as
\* LoadScenarioException.
C21_ResolutionFailsAsLoadScenarioException ==
    mExc.stage = "resolve" => mExc.type = "LoadScenarioException"

\* C22 as stated: when the scenario cannot be resolved, nothing has been
\* asked of the store or of the remote by the time LoadScenarioException is
\* raised: no lpid drawn, no settings row read, no log row written, no HTTP
\* request sent.
C22_NoCallBeforeScenarioLoadError ==
    (mExc.stage = "resolve" /\ mExc.type = "LoadScenarioException") =>
        /\ mCalls = <<>>
        /\ mMinted = <<>>
        /\ mLogTable = <<>>

C24_EmitNeverRaises ==
    [][ /\ mHandler'.installed =>
              Len(mLogTable') + Len(mDiag') = Len(mEmitted')
        /\ (mHandler.installed /\ ~mSinkUp) =>
              /\ mLogTable' = mLogTable
              /\ Len(mDiag') - Len(mDiag) = Len(mEmitted') - Len(mEmitted)
        /\ mDiag' # mDiag => mpc' # mpc
        /\ mExc'.stage \in {"none", "lpid", "resolve", "construct", "fetch",
                            "process", "insert"} ]_vars

\* the store refused every event of the run, and the run succeeded
C24_Witness ==
    /\ mOutcome = "succeeded"
    /\ mLogTable = <<>>
    /\ Len(mDiag) = Len(mEmitted)
    /\ Len(mDiag) >= 5

\* C25 as stated: the event code of every row of the log table is a member
\* of LoggingEventCodeEnum.
C25_PersistedCodesInVocabulary ==
    \A i \in 1..Len(mLogTable) : mLogTable[i].code \in LoggingEventCodes

\* C26: generate_lpid returns one value per execution; the lpid of main is
\* never assigned again; the handler, WBApp and the service carry it, and it
\* is the lpid of every data row and of every log row.
C26_OneRunId ==
    [][ /\ Len(mMinted') <= 1
        /\ mLpid # NoLpid => mLpid' = mLpid
        /\ mLpid' # NoLpid => mMinted' = <<mLpid'>>
        /\ mHandler'.installed => mHandler'.lpid = mLpid'
        /\ mAppLpid' # NoLpid => mAppLpid' = mLpid'
        /\ mService' # NoService => mService'.lpid = mLpid'
        /\ \A i \in 1..Len(mDataTable') : mDataTable'[i].lpid = mLpid'
        /\ \A i \in 1..Len(mLogTable') : mLogTable'[i].lpid = mLpid' ]_vars

\* a run that succeeded with the second value of the sequence as its lpid
C26_Witness ==
    /\ mOutcome = "succeeded"
    /\ mMinted = <<2>>
    /\ Len(mDataTable) = 2
    /\ Len(mLogTable) >= 5

\* C27 as stated: the exit status is 0 exactly when the run succeeded, and
\* an execution that did not succeed has emitted a failure event before it
\* exits.
C27_ExitStatusTellsSuccess ==
    mpc = "exited" =>
        /\ mStatus = 0 <=> mOutcome = "succeeded"
        /\ mOutcome # "succeeded" => FailureEvents # {}

\* C31 as stated: the stages of a run come in the order scenario resolution,
\* RunID issuance, fetch, validation and transformation, batch insert, each
\* one starting only when the one before it is complete: an lpid is issued
\* only to a run that holds its resolved service, a request is sent only by
\* a run that has its lpid, validation starts only after the fetch returned
\* and the insert only after the transformation.
C31_StagesInOrder ==
    LET called(c) == \E i \in 1..Len(mCalls) : mCalls[i] = c
        logged(c) == \E i \in 1..Len(mEmitted) : mEmitted[i].code = c
    IN /\ called("generate_lpid") => mService # NoService
       /\ called("http") => mLpid # NoLpid
       /\ (logged("TRANSFORM_DATA_SUCCESS") \/ logged("TRANSFORM_DATA_ERROR"))
             => logged("EXTRACT_DATA_SUCCESS")
       /\ called("insert") => logged("TRANSFORM_DATA_SUCCESS")

C35_InsertRestoresConnection ==
    /\ rpc \in {"ins_now", "ins_rows", "ins_committed"}
          => (db.timeout = InsertTimeout /\ old_timeout = DbQueryTimeout)
    /\ (rpc = "done" \/ (rpc = "failed" /\ exc.stage = "insert"))
          => /\ db.autocommit = TRUE
             /\ db.timeout = NewConnection.timeout
             /\ db.timeout # InsertTimeout

C35_Witness ==
    /\ rpc = "failed"
    /\ exc.stage = "insert"
    /\ exc.type # "DatabaseError"
    /\ rowIdx >= 1
    /\ db.autocommit = TRUE
    /\ db.timeout = DbQueryTimeout


\* C37: the sink commits on the connection of the repository, and no event
\* is emitted between the step in which insert leaves auto-commit mode and
\* the step in which it commits or rolls back: a step that stays inside the
\* open transaction emits nothing, a step that emits an event starts and
\* ends with no uncommitted data row and makes no data row visible, and data
\* rows become visible only in the commit step of insert, all of the batch
\* at once and once per run.
InTransaction(p) == p \in {"ins_now", "ins_rows"}

C37_NoEventInsideTransaction ==
    [][ /\ (InTransaction(rpc) /\ InTransaction(rpc'))
              => (emitted' = emitted /\ db'.logTable = db.logTable)
        /\ emitted' # emitted
              => /\ db'.txRows = <<>>
                 /\ db'.table = db.table
                 /\ db'.dataCommits = db.dataCommits
                 /\ (db.txRows # <<>> => (rpc' = "failed" /\ db'.table = <<>>))
        /\ db'.table # db.table
              => /\ rpc = "ins_rows" /\ rpc' = "ins_committed"
                 /\ emitted' = emitted
                 /\ db.table = <<>> /\ db'.table = params
                 /\ db'.dataCommits = 1 ]_vars

\* insert raised after rows of the batch were written; the sink then
\* committed the failure events on the shared connection, and no row of the
\* batch is visible
C37_Witness ==
    /\ rpc = "failed"
    /\ exc.stage = "insert"
    /\ rowIdx >= 1
    /\ sinkOk
    /\ Len(db.logTable) = Len(emitted)
    /\ "DB_ERROR" \in Codes(emitted)
    /\ db.table = <<>>
    /\ db.dataCommits = 0


\* C39: INSERT_DATA_SUCCESS is emitted at most once per run, only by a step
\* that starts after the batch transaction was committed (every row of the
\* batch visible, none pending), and never in a run that failed: a run whose
\* fetch, validation or insert raised has no such event.
SuccessCount(evs) ==
    Cardinality({i \in 1..Len(evs) : evs[i].code = "INSERT_DATA_SUCCESS"})

C39_SuccessEventAfterCommit ==
    [][ /\ SuccessCount(emitted') <= 1
        /\ SuccessCount(emitted') > SuccessCount(emitted)
              => /\ rpc = "ins_committed"
                 /\ db.table = params
                 /\ db.txRows = <<>>
                 /\ Len(db.table) = Len(processed_data)
        /\ SuccessCount(emitted') = 1
              => (rpc' = "done" /\ exc' = NoExc /\ db'.table = params')
        /\ exc' # NoExc => SuccessCount(emitted') = 0 ]_vars

\* a run that returned: the success event is the last event of the run and
\* follows the commit of a batch of two or more rows
C39_Witness ==
    /\ rpc = "done"
    /\ SuccessCount(emitted) = 1
    /\ emitted[Len(emitted)].code = "INSERT_DATA_SUCCESS"
    /\ db.dataCommits = 1
    /\ Len(db.table) >= 2


\* C36 as stated: once generate_lpid has returned or raised, on every exit
\* path, the session of the caller does not hold 'LpidLock'.
\* Violated: when the draw raises after the lock was granted the batch stops
\* before sp_releaseapplock, the except clauses release nothing, and the
\* session-owned lock stays with the session until its connection closes.
C36_LockFreeAfterCall ==
    \A p \in Procs : pc[p] \in {"returned", "raised", "done"} => p \notin held


\* C34 as stated: every request a fetch client sends, in the cursor and in
\* the offset discipline, is sent with the configured per-request timeout.
\* Violated: WB24APIClient keeps the configured value in self.timeout and
\* calls s.get without a timeout argument; requests then waits without bound.
C34_EveryRequestHasTimeout ==
    fReqLog # <<>> => "timeout" \in RequestKwargs(fClient)


\* C33: fetch_data terminates in both disciplines: against a remote that
\* serves a finite dataset in pages of at most limit records, following the
\* cursor or offset of each request, every request after the first asks for
\* what follows the records already served (a later offset, the cursor of the
\* last card served), the number of page requests never exceeds
\* floor(n / limit) + 1 for the n records served, and fetch_data eventually
\* returns or raises.
C33_FetchTerminates ==
    /\ [](/\ Len(fReqLog) <= (Len(Concat(fPages)) \div Limit) + 1
          /\ Len(fReqLog) <= MaxPages
          /\ fClient = "wb17" => CursorCarried
          /\ fClient = "wb24" =>
                \A k \in 2..Len(fReqLog) :
                    fReqLog[k].offset = fReqLog[k - 1].offset + Limit)
    /\ <>(FetchReturned \/ FetchFailed)

\* the cursor client has returned after the largest number of requests the
\* served records allow: full pages, then a short one
C33_Witness ==
    /\ fClient = "wb17"
    /\ fpc = "returned"
    /\ Len(fReqLog) = MaxPages
    /\ Len(fReqLog) = (Len(fAll) \div Limit) + 1
    /\ Len(fAll) = (MaxPages - 1) * Limit + 1


\* the remote has answered every request with a page of the dataset from
\* its first record on: no error status, complete cards, a cursor.total (when
\* given) equal to the number of cards of the page
HonestRemote ==
    /\ fInitOffset = 0
    /\ fExc.cause \notin {"HTTPError", "RetryError"}
    /\ \A k \in 1..Len(fPages) :
          /\ fPages[k].total \in {NoTotal, Len(fPages[k].cards)}
          /\ ~LacksCursorField(k)

====
